---- MODULE Spec2Model ----
(***************************************************************************)
(* Credential rotation and resilient dispatch of opencode-kimicode-auth.   *)
(*                                                                         *)
(* The module models one call of the loader's fetch() (src/src/plugin.ts,  *)
(* lines 702-1109): the retry loop that selects an account, refreshes its  *)
(* token, sends the request, classifies the outcome and retries, switches, *)
(* returns or throws.  Each action is the code between two suspension      *)
(* points that matter (the upstream fetch, a token refresh, a sleep).      *)
(* Time is in milliseconds and advances only when a sleep completes.       *)
(*                                                                         *)
(* AccountManager (plugin/accounts) and the health / token trackers        *)
(* (plugin/rotation) are modelled from the specification, sections 4.2 and *)
(* 4.3.  Health is stored multiplied by HourMs and tokens multiplied by    *)
(* TokenScale so that lazy recovery and regeneration stay integral.        *)
(***************************************************************************)
EXTENDS Integers, Sequences, FiniteSets, TLC

\* ------------------------------------------------------------------ bounds

\* Number of accounts in the pool.
NumAccounts == 3

\* Upstream requests one dispatch call may send under Spec.
MaxRequests == 3

\* Upstream requests one dispatch call may send under SpecBackoff.
MaxBackoffRequests == 12

\* Sleeps for rate-limit recovery one dispatch call may take.
MaxWaits == 1

\* Token refreshes one dispatch call may start.
MaxRefreshes == 2

\* operations applied directly to the account pool or the trackers, the
\* passing of a minute included in the pool specification
MaxPoolOps == 2

\* times the clock is advanced in the tracker specification
MaxElapses == 1

\* accounts of a pool on disk or in memory (merge specification)
MaxStoreAccounts == 2

\* accounts of a list handed to the deduplication
MaxRawAccounts == 3

\* store operations one process completes
MaxStoreOps == 1

\* entries of the accounts array of a store file that is loaded
MaxFileEntries == 2

\* credentials recorded by logins
MaxLogins == 12

\* entries of the plugin array of a config file
MaxPlugins == 2

\* runs of updateOpencodeConfig on one config file
MaxConfigRuns == 3

\* runs of the auth loader, counted with the operations on the pool
MaxLoaderRuns == 1

\* rounds of the loop a dispatch call runs when calls run side by side
MaxCallRounds == 2

\* ------------------------------------------------------- program constants

\* plugin.ts:858 / 987   5 * 60_000
TerminalCooldownMs == 300000

\* plugin.ts:862 / 874 / 1000   60_000
AuthCooldownMs == 60000

\* plugin.ts:1079 / 1098   15_000
NetworkCooldownMs == 15000

\* plugin.ts:1087 / 1105   sleep(1000, abortSignal)
PauseMs == 1000

\* plugin.ts:829   Math.max(1000, minWait)
MinWaitSleepMs == 1000

\* plugin.ts:1031-1032
BaseDelayMs == 1000

MaxDelayMs == 8000

\* plugin.ts:1037   Math.min(capacityRetryCount + 1, 10)
MaxCapacityRetryCount == 10

\* auth.ts:3   ACCESS_TOKEN_EXPIRY_BUFFER_MS
AccessTokenExpiryBufferMs == 60000

\* auth.ts:25   default expires_in of 3600 s, in ms
RefreshedLifetimeMs == 3600000

\* DEFAULT_CONFIG (schema): health_score and token_bucket
HealthInitial == 70

SuccessReward == 1

RateLimitPenalty == -10

FailurePenalty == -20

RecoveryRatePerHour == 2

MaxScore == 100

MaxTokens == 50

InitialTokens == 50

RegenerationRatePerMinute == 6

\* one hour in ms: health is stored as score * HourMs
HourMs == 3600000

\* ms it takes to regenerate one token: tokens are stored as tokens * TokenScale
TokenScale == 60000 \div RegenerationRatePerMinute

Accounts == 0 .. (NumAccounts - 1)

\* the "no account" value (null in the source)
None == -1

Strategies == {"sticky", "round-robin", "hybrid"}

\* max_rate_limit_wait_seconds * 1000 for the configurations explored:
\* 0 disables the budget, 300 s is the default
MaxWaitChoices == {0, 300000}

\* 0.9 + Math.random() * 0.2 in thousandths: the two ends of the interval
JitterPermille == {900, 1100}

\* retryAfterMs of a true rate limit (header, payload or default), in ms
RateLimitWindows == {2000, 400000}

\* An upstream response as the dispatcher reads it: the status, the payload's
\* reason code, whether its message names Kimi CLI / coding agents, what
\* parseRateLimitReason makes of it, and the retry delay.  Status 0 stands
\* for a fetch that rejected (transport error or abort).
Resp(s, r, m, q, w) ==
    [status |-> s, reason |-> r, cliMessage |-> m, rlReason |-> q,
     retryAfterMs |-> w]

NoResponse == Resp(-1, "none", FALSE, "none", 0)

FetchRejected == Resp(0, "none", FALSE, "none", 0)

CapacityResponses ==
    {Resp(503, "none", FALSE, "MODEL_CAPACITY_EXHAUSTED", 0),
     Resp(529, "none", FALSE, "SERVER_ERROR", 0)}

Responses ==
    {Resp(200, "none", FALSE, "none", 0), Resp(500, "none", FALSE, "none", 0),
     Resp(401, "none", FALSE, "none", 0), Resp(403, "none", FALSE, "none", 0),
     Resp(401, "access_terminated_error", FALSE, "none", 0),
     Resp(403, "access_terminated_error", FALSE, "none", 0),
     Resp(403, "none", TRUE, "none", 0)}
    \cup CapacityResponses
    \cup {Resp(429, "none", FALSE, "RATE_LIMIT_EXCEEDED", w) :
            w \in RateLimitWindows}
    \cup {FetchRejected}

\* What refreshAccessToken resolved to: the refreshed credential ("ok"), a
\* thrown KimiTokenRefreshError with its code and status ("error"), or
\* undefined after an exception while calling the endpoint ("undefined").
Refr(k, c, s) == [kind |-> k, code |-> c, status |-> s]

NoRefresh == Refr("none", "none", 0)

RefreshOutcomes ==
    {Refr("ok", "none", 200), Refr("undefined", "none", 0),
     Refr("error", "invalid_grant", 400), Refr("error", "other", 401),
     Refr("error", "other", 403), Refr("error", "other", 500)}

Min(a, b) == IF a <= b THEN a ELSE b

Max(a, b) == IF a >= b THEN a ELSE b

VARIABLES
    \* configuration of the call
    strategy, canRetry, maxWaitMs,
    \* configuration of the trackers (health_score, token_bucket)
    healthConfig, tokenConfig,
    \* clock
    now,
    \* account pool (AccountManager)
    enabled, cooldownUntil, cooldownReason, rateLimitReset, lastUsed,
    hasAccess, expires, activeIndex, rrCursor, saveRequests,
    \* trackers
    healthScore, healthUpdated, tokens, tokensRefill,
    \* retry context of the dispatch call
    pc, result, account, lastAccountIndex, capacityRetryCount,
    attemptedRefreshForAccount, tokenConsumed, aborted, sleepMs,
    \* what the awaited fetch / refresh resolved to
    response, refreshOutcome,
    \* history of the call
    requestsSent, waits, refreshes, prevOutcome, prevAccount, prevDelay,
    lastDelay, consumes, refunds, terminalFailed, abortedAt,
    authRefreshed, levelBefore,
    \* operations applied directly to the pool and the trackers (pool and
    \* tracker specifications)
    poolOps,
    \* the store: the pool read from disk, the pool being saved, and what
    \* mergeAccountStorage made of the two (empty until it has run)
    existing, incoming, merged,
    \* a list of accounts as parsed from the file, and what
    \* deduplicateAccountsByEmail returned for it (empty until it has run)
    rawAccounts, deduped,
    \* the store file and its lock, shared by the processes
    disk, lockHolder,
    \* per process: the step of its store operation and which operation it
    \* is, the pool it holds in memory, what loadAccounts returned to it,
    \* the pool it is about to write, its temp file, the operations it
    \* completed
    storePc, storeOp, memPool, stored, toWrite, tempFile, opsDone,
    \* what a reader that takes no lock last found in the store file, and
    \* what loadAccounts made of it
    observed, loaded,
    \* per process: the error the file system or the lock has in store for
    \* its save ("none", "lock", "write", "rename")
    fault,
    \* dispatch calls that run side by side: where each stands, its account
    \* and the refresh token it sent; per account the refresh token the
    \* manager holds and the one the token endpoint accepts (tokens are
    \* numbered in the order the endpoint issued them)
    inFlight, authRefresh, granted,
    \* a login session: where it stands, the credentials it obtained so far
    \* and whether it replaces the pool; the refresh token of the last
    \* credential that was recorded
    loginPc, results, startFresh, credential,
    \* the last call of removeAccountFromPool: its argument, the store file
    \* it found, the account it took out and what it returned
    removal,
    \* the opencode config file, the runs of updateOpencodeConfig so far and
    \* the success flag of the last one
    configFile, configRuns, configOk

cfgVars == <<strategy, canRetry, maxWaitMs, healthConfig, tokenConfig>>

\* variables the dispatcher never touches
mergeVars == <<existing, incoming, merged>>

dedupVars == <<rawAccounts, deduped>>

fileVars == <<disk, lockHolder>>

procVars == <<storePc, storeOp, memPool, stored, toWrite, tempFile, opsDone>>

jitVars == <<inFlight, authRefresh, granted>>

readerVars == <<observed, loaded, fault, jitVars>>

loginVars == <<loginPc, results, startFresh, credential, removal>>

diskVars == <<fileVars, procVars, readerVars, loginVars>>

configVars == <<configFile, configRuns, configOk>>

storeVars == <<mergeVars, dedupVars, diskVars, configVars>>

offVars == <<poolOps, storeVars>>

poolVars == <<enabled, cooldownUntil, cooldownReason, rateLimitReset, lastUsed,
              hasAccess, expires, activeIndex, rrCursor, saveRequests>>

trackerVars == <<healthScore, healthUpdated, tokens, tokensRefill>>

ctxVars == <<pc, result, account, lastAccountIndex, capacityRetryCount,
             attemptedRefreshForAccount, tokenConsumed, aborted, sleepMs,
             response, refreshOutcome>>

histVars == <<requestsSent, waits, refreshes, prevOutcome, prevAccount,
              prevDelay, lastDelay, consumes, refunds, terminalFailed,
              abortedAt, authRefreshed, levelBefore>>

vars == <<cfgVars, now, poolVars, trackerVars, ctxVars, histVars, offVars>>

\* ------------------------------------------------ HealthTracker (spec 4.2)

\* passive recovery, computed lazily at read time
HealthRead(a) ==
    Min(healthConfig.maxScore * HourMs,
        healthScore[a] + RecoveryRatePerHour * (now - healthUpdated[a]))

HealthAfter(a, delta) ==
    [healthScore EXCEPT ![a] =
        Max(0, Min(healthConfig.maxScore * HourMs,
                   HealthRead(a) + delta * HourMs))]

RecordHealth(a, delta) ==
    /\ healthScore' = HealthAfter(a, delta)
    /\ healthUpdated' = [healthUpdated EXCEPT ![a] = now]

recordSuccess(a) == RecordHealth(a, SuccessReward)

recordRateLimit(a) == RecordHealth(a, RateLimitPenalty)

recordFailure(a) == RecordHealth(a, FailurePenalty)

\* -------------------------------------------------- TokenBucket (spec 4.2)

\* lazy refill: one stored unit per ms, capped at maxTokens
TokensRefilled(a) ==
    Min(tokenConfig.maxTokens * TokenScale,
        tokens[a] + (now - tokensRefill[a]))

CanConsume(a) == TokensRefilled(a) >= TokenScale

TokensAfterConsume(a) ==
    [tokens EXCEPT ![a] =
        IF CanConsume(a) THEN TokensRefilled(a) - TokenScale
        ELSE TokensRefilled(a)]

TokensAfterRefund(a) ==
    [tokens EXCEPT ![a] =
        Min(tokenConfig.maxTokens * TokenScale, tokens[a] + TokenScale)]

\* ----------------------------------------------- AccountManager (spec 4.3)

\* faulty variant: the rate-limit window of the family is not looked at
Eligible_IgnoresRateLimit(a) ==
    /\ enabled[a]
    /\ cooldownUntil[a] <= now

Eligible(a) ==
    /\ enabled[a]
    /\ cooldownUntil[a] <= now
    /\ rateLimitReset[a] <= now

EligibleSet == {a \in Accounts : Eligible(a)}

\* faulty variant: the search stops at the last index instead of wrapping
NextEligibleFrom_NoWrap(start) ==
    IF \A a \in Accounts : a >= start => ~(enabled[a] /\ cooldownUntil[a] <= now
                                             /\ rateLimitReset[a] <= now)
    THEN None
    ELSE CHOOSE a \in Accounts :
            /\ a >= start
            /\ enabled[a] /\ cooldownUntil[a] <= now /\ rateLimitReset[a] <= now
            /\ \A b \in Accounts :
                  (b >= start /\ b < a)
                  => ~(enabled[b] /\ cooldownUntil[b] <= now
                       /\ rateLimitReset[b] <= now)

\* first eligible index in the cyclic order start, start+1, ...
NextEligibleFrom(start) ==
    IF EligibleSet = {} THEN None
    ELSE LET d == CHOOSE k \in 0 .. (NumAccounts - 1) :
                    /\ Eligible((start + k) % NumAccounts)
                    /\ \A j \in 0 .. (k - 1) : ~Eligible((start + j) % NumAccounts)
         IN (start + d) % NumAccounts

\* faulty variant: the health score is left out of the hybrid score
HybridScore_NoHealth(a) ==
    (IF tokens[a] + (now - tokensRefill[a]) >= TokenScale
     THEN 5 * HourMs ELSE -5 * HourMs)
    + (IF now - lastUsed[a] <= 600000 THEN now - lastUsed[a] ELSE 600000) * 60

\* hybrid score * HourMs:
\*   healthScore + (tokens >= 1 ? 5 : -5) + min(idleSeconds / 60, 10)
HybridScore(a) ==
    HealthRead(a)
    + (IF CanConsume(a) THEN 5 * HourMs ELSE -5 * HourMs)
    + Min((now - lastUsed[a]), 600000) * 60

HybridPick ==
    IF EligibleSet = {} THEN None
    ELSE CHOOSE a \in EligibleSet :
            \A b \in EligibleSet :
                \/ HybridScore(a) > HybridScore(b)
                \/ (HybridScore(a) = HybridScore(b) /\ a <= b)

selectForFamily ==
    CASE strategy = "sticky" ->
            IF Eligible(activeIndex) THEN activeIndex
            ELSE NextEligibleFrom((activeIndex + 1) % NumAccounts)
      [] strategy = "round-robin" -> NextEligibleFrom(rrCursor)
      [] OTHER -> HybridPick

\* the smallest non-negative delay until some account is eligible again
WaitOf(a) == Max(0, Max(cooldownUntil[a], rateLimitReset[a]) - now)

minWaitMsForFamily ==
    LET en == {a \in Accounts : enabled[a]}
    IN IF en = {} THEN 0
       ELSE CHOOSE w \in {WaitOf(a) : a \in en} :
                \A a \in en : w <= WaitOf(a)

markCoolingDown(a, ms, reason) ==
    /\ cooldownUntil' = [cooldownUntil EXCEPT ![a] = now + ms]
    /\ cooldownReason' = [cooldownReason EXCEPT ![a] = reason]


markUsed(a) == lastUsed' = [lastUsed EXCEPT ![a] = now]

requestSave == saveRequests' = saveRequests + 1

\* --------------------------------------------------- dispatcher, pure parts

\* auth.ts accessTokenExpired
accessTokenExpired(a) ==
    \/ ~hasAccess[a]
    \/ expires[a] <= now + AccessTokenExpiryBufferMs

\* faulty variant: the budget is compared even when it is 0 (disabled)
ExceedsWaitBudget_NoZeroCheck(minWait) == minWait > maxWaitMs

\* plugin.ts:817   maxWaitMs > 0 && minWait > maxWaitMs
ExceedsWaitBudget(minWait) == maxWaitMs > 0 /\ minWait > maxWaitMs

\* faulty variant: a 403 from the refresh endpoint is not taken as terminal
IsTerminalRefreshError_No403(o) ==
    /\ o.kind = "error"
    /\ (o.code = "invalid_grant" \/ o.status = 401)

\* plugin.ts:852-855 and 982-985
IsTerminalRefreshError(o) ==
    /\ o.kind = "error"
    /\ (o.code = "invalid_grant" \/ o.status = 401 \/ o.status = 403)

\* plugin.ts:934   response.ok
IsOk(r) == r.status >= 200 /\ r.status <= 299

\* plugin.ts:949
IsAuthError(r) == r.status = 401 \/ r.status = 403

\* plugin.ts:953-957
IsAccessDenied(r) ==
    /\ r.status = 403
    /\ (r.reason = "access_terminated_error" \/ r.cliMessage)

\* plugin.ts:1012
IsOverloaded(r) == r.status = 429 \/ r.status = 503 \/ r.status = 529

\* plugin.ts:1026
IsCapacityReason(r) ==
    r.rlReason = "MODEL_CAPACITY_EXHAUSTED" \/ r.rlReason = "SERVER_ERROR"

Pow2(n) == IF n <= 0 THEN 1 ELSE 2 ^ n

\* faulty variant: the delay does not grow with the retry count
ExponentialDelay_NoGrowth(count) == BaseDelayMs

\* plugin.ts:1033
ExponentialDelay(count) == Min(BaseDelayMs * Pow2(count), MaxDelayMs)

\* plugin.ts:1034-1035   Math.round(exponentialDelay * (0.9 + random * 0.2))
JitteredDelay(e, j) == (e * j + 500) \div 1000

\* faulty variant: the counter is not capped
NextCapacityRetryCount_NoCap(c) == c + 1

\* plugin.ts:1037
NextCapacityRetryCount(c) == Min(c + 1, MaxCapacityRetryCount)

\* ------------------------------------------------------------------- Init

\* part_002:309-322  DEFAULT_CONFIG.health_score / token_bucket
DefaultHealthConfig == [initial |-> HealthInitial, maxScore |-> MaxScore]

DefaultTokenConfig == [maxTokens |-> MaxTokens, initialTokens |-> InitialTokens]

\* storage.ts:324  the file ensureFileExists creates
EmptyStorage == [version |-> 1, accounts |-> <<>>, activeIndex |-> 0]

\* the processes that share the store
Procs == {1, 2}

\* the dispatch calls of one process that run side by side
Calls == {1, 2}

\* a call that is not running
IdleCall == [pc |-> "idle", account |-> None, refresh |-> 0, rounds |-> 0]

\* a store file: missing, not parseable (truncated or otherwise invalid
\* JSON), or holding a JSON document; openBy are the processes that hold
\* the file open for writing (fs.writeFile between its open and its write)
FileMissing == [kind |-> "missing", data |-> EmptyStorage, openBy |-> {}]

FileInvalid == [kind |-> "invalid", data |-> EmptyStorage, openBy |-> {}]

FileOf(data) == [kind |-> "json", data |-> data, openBy |-> {}]

\* no pool handed to the merge, no merge run
NoMerge ==
    /\ existing = EmptyStorage
    /\ incoming = EmptyStorage
    /\ merged = <<>>

\* no list handed to the deduplication
NoDedup ==
    /\ rawAccounts = <<>>
    /\ deduped = <<>>

\* no process at work on the store
IdleProcs ==
    /\ lockHolder = 0
    /\ storePc = [p \in Procs |-> "idle"]
    /\ storeOp = [p \in Procs |-> "none"]
    /\ stored = [p \in Procs |-> <<>>]
    /\ toWrite = [p \in Procs |-> EmptyStorage]
    /\ tempFile = [p \in Procs |-> <<>>]
    /\ opsDone = [p \in Procs |-> 0]
    /\ observed = FileMissing
    /\ loaded = [called |-> FALSE, threw |-> FALSE, value |-> <<>>]
    /\ fault = [p \in Procs |-> "none"]
    /\ inFlight = [c \in Calls |-> IdleCall]
    /\ authRefresh = [a \in Accounts |-> 0]
    /\ granted = [a \in Accounts |-> 0]
    /\ loginPc = "idle"
    /\ results = 0
    /\ startFresh = FALSE
    /\ credential = ""
    /\ removal = <<>>

\* the created file on disk, nothing in memory, nobody at work
NoDisk ==
    /\ disk = FileOf(EmptyStorage)
    /\ memPool = [p \in Procs |-> EmptyStorage]
    /\ IdleProcs

\* no config file, updateOpencodeConfig never ran
NoConfig ==
    /\ configFile = [kind |-> "missing"]
    /\ configRuns = 0
    /\ configOk = TRUE

NoStore ==
    /\ NoMerge
    /\ NoDedup
    /\ NoDisk
    /\ NoConfig

DefaultTrackers ==
    /\ healthConfig = DefaultHealthConfig
    /\ tokenConfig = DefaultTokenConfig
    /\ poolOps = 0

FreshPool ==
    /\ now = 0
    /\ enabled = [a \in Accounts |-> TRUE]
    /\ cooldownUntil = [a \in Accounts |-> 0]
    /\ cooldownReason = [a \in Accounts |-> "none"]
    /\ lastUsed = [a \in Accounts |-> 0]
    /\ activeIndex = 0
    /\ rrCursor = 0
    /\ saveRequests = 0
    /\ healthScore = [a \in Accounts |-> healthConfig.initial * HourMs]
    /\ healthUpdated = [a \in Accounts |-> 0]
    /\ tokensRefill = [a \in Accounts |-> 0]

FreshContext ==
    /\ pc = "select"
    /\ result = "none"
    /\ account = None
    /\ lastAccountIndex = None
    /\ capacityRetryCount = 0
    /\ attemptedRefreshForAccount = FALSE
    /\ tokenConsumed = FALSE
    /\ aborted = FALSE
    /\ sleepMs = 0
    /\ response = NoResponse
    /\ refreshOutcome = NoRefresh
    /\ requestsSent = 0
    /\ waits = 0
    /\ refreshes = 0
    /\ prevOutcome = "none"
    /\ prevAccount = None
    /\ prevDelay = 0
    /\ lastDelay = 0
    /\ consumes = 0
    /\ refunds = 0
    /\ terminalFailed = {}
    /\ authRefreshed = {}
    /\ levelBefore = None
    /\ abortedAt = "none"

\* The pool as loaded before a call: every account enabled (the loader
\* re-enables auth-failure accounts); the access tokens valid, expired or
\* missing; under hybrid the buckets full or drained; possibly a rate-limit
\* window left on every account by an earlier call.
Init ==
    /\ strategy \in Strategies
    /\ canRetry \in BOOLEAN
    /\ maxWaitMs \in MaxWaitChoices
    /\ DefaultTrackers
    /\ NoStore
    /\ FreshPool
    /\ FreshContext
    /\ \E h \in BOOLEAN, e \in {0, RefreshedLifetimeMs} :
          /\ ~h => e = 0
          /\ hasAccess = [a \in Accounts |-> h]
          /\ expires = [a \in Accounts |-> e]
    /\ \E t \in {0, tokenConfig.initialTokens * TokenScale} :
          /\ strategy # "hybrid" => t = tokenConfig.initialTokens * TokenScale
          /\ tokens = [a \in Accounts |-> t]
    /\ \E w \in {0, 400000} : rateLimitReset = [a \in Accounts |-> w]

\* ------------------------------------------------- dispatcher, shared parts

cooldownVars == <<cooldownUntil, cooldownReason>>

healthVars == <<healthScore, healthUpdated>>

credVars == <<hasAccess, expires>>

selVars == <<activeIndex, rrCursor>>

counterVars == <<lastAccountIndex, capacityRetryCount, attemptedRefreshForAccount>>

delayVars == <<prevDelay, lastDelay>>

noteVars == <<prevOutcome, prevAccount>>

awaitedVars == <<response, refreshOutcome>>

\* the class of a response, as the branches of the loop tell them apart
OutcomeKind(r) ==
    CASE IsOk(r) -> "ok"
      [] r.status = 0 -> "exception"
      [] IsAuthError(r) /\ IsAccessDenied(r) -> "denied"
      [] IsAuthError(r) -> "auth"
      [] IsOverloaded(r) /\ IsCapacityReason(r) -> "capacity"
      [] IsOverloaded(r) -> "ratelimit"
      [] OTHER -> "other"

\* history: the outcome of the request just classified
Noted ==
    /\ prevOutcome' = OutcomeKind(response)
    /\ prevAccount' = account

NoDelays ==
    /\ prevDelay' = 0
    /\ lastDelay' = 0

\* plugin.ts:923-930: consume a token under hybrid, then await fetch
SendRequest(a, limit) ==
    /\ requestsSent < limit
    /\ tokenConsumed' = (strategy = "hybrid" /\ CanConsume(a))
    /\ tokens' = IF strategy = "hybrid" THEN TokensAfterConsume(a) ELSE tokens
    /\ tokensRefill' = IF strategy = "hybrid"
                       THEN [tokensRefill EXCEPT ![a] = now] ELSE tokensRefill
    /\ consumes' = IF strategy = "hybrid" /\ CanConsume(a)
                   THEN consumes + 1 ELSE consumes
    /\ levelBefore' = IF strategy = "hybrid" /\ CanConsume(a)
                      THEN TokensRefilled(a) ELSE None
    /\ requestsSent' = IF aborted THEN requestsSent ELSE requestsSent + 1
    /\ pc' = "inflight"

\* faulty variant: the refund is not guarded by tokenConsumed
RefundIf_Unguarded(cond, a) ==
    /\ tokens' = TokensAfterRefund(a)
    /\ refunds' = refunds + 1
    /\ tokenConsumed' = FALSE

\* getTokenTracker().refund(account.index); tokenConsumed = false
RefundIf(cond, a) ==
    /\ tokens' = IF cond THEN TokensAfterRefund(a) ELSE tokens
    /\ refunds' = IF cond THEN refunds + 1 ELSE refunds
    /\ tokenConsumed' = IF cond THEN FALSE ELSE tokenConsumed

\* faulty variant: the per-account counters survive a switch of account
Selected_NoReset(sel) ==
    /\ activeIndex' = sel
    /\ rrCursor' = IF strategy = "round-robin"
                   THEN (sel + 1) % NumAccounts ELSE rrCursor
    /\ account' = sel
    /\ lastAccountIndex' = sel
    /\ UNCHANGED <<attemptedRefreshForAccount, capacityRetryCount, prevDelay,
                   lastDelay>>

\* faulty variant: round-robin does not advance after a selection
Selected_NoAdvance(sel) ==
    /\ activeIndex' = sel
    /\ UNCHANGED rrCursor
    /\ account' = sel
    /\ lastAccountIndex' = sel
    /\ attemptedRefreshForAccount' =
          IF lastAccountIndex # sel THEN FALSE ELSE attemptedRefreshForAccount
    /\ capacityRetryCount' =
          IF lastAccountIndex # sel THEN 0 ELSE capacityRetryCount
    /\ prevDelay' = IF lastAccountIndex # sel THEN 0 ELSE prevDelay
    /\ lastDelay' = IF lastAccountIndex # sel THEN 0 ELSE lastDelay

\* plugin.ts:833-837 with the effect of selection on the manager
Selected(sel) ==
    /\ activeIndex' = sel
    /\ rrCursor' = IF strategy = "round-robin"
                   THEN (sel + 1) % NumAccounts ELSE rrCursor
    /\ account' = sel
    /\ lastAccountIndex' = sel
    /\ attemptedRefreshForAccount' =
          IF lastAccountIndex # sel THEN FALSE ELSE attemptedRefreshForAccount
    /\ capacityRetryCount' =
          IF lastAccountIndex # sel THEN 0 ELSE capacityRetryCount
    /\ prevDelay' = IF lastAccountIndex # sel THEN 0 ELSE prevDelay
    /\ lastDelay' = IF lastAccountIndex # sel THEN 0 ELSE lastDelay

\* plugin.ts:1089-1106: the catch around the attempt
CatchHandler(a) ==
    /\ RefundIf(strategy = "hybrid" /\ tokenConsumed, a)
    /\ recordFailure(a)
    /\ markCoolingDown(a, NetworkCooldownMs, "network-error")
    /\ requestSave
    /\ pc' = "catchSleep"
    /\ sleepMs' = PauseMs

\* ------------------------------------------------------ SelectAccount step

\* plugin.ts:803-805
LoopTopAborted ==
    /\ pc = "select"
    /\ aborted
    /\ pc' = "done"
    /\ result' = "aborted"
    /\ UNCHANGED <<cfgVars, offVars, now, poolVars, trackerVars, account, counterVars,
                   tokenConsumed, aborted, sleepMs, awaitedVars, histVars>>

\* plugin.ts:815-822
SelectNoneThrow ==
    /\ pc = "select"
    /\ ~aborted
    /\ selectForFamily = None
    /\ ExceedsWaitBudget(minWaitMsForFamily)
    /\ pc' = "done"
    /\ result' = "exhausted"
    /\ UNCHANGED <<cfgVars, offVars, now, poolVars, trackerVars, account, counterVars,
                   tokenConsumed, aborted, sleepMs, awaitedVars, histVars>>

\* plugin.ts:815-830
SelectNoneWait ==
    /\ pc = "select"
    /\ ~aborted
    /\ selectForFamily = None
    /\ ~ExceedsWaitBudget(minWaitMsForFamily)
    /\ waits < MaxWaits
    /\ waits' = waits + 1
    /\ pc' = "waitSleep"
    /\ sleepMs' = Max(MinWaitSleepMs, minWaitMsForFamily)
    /\ UNCHANGED <<cfgVars, offVars, now, poolVars, trackerVars, result, account,
                   counterVars, tokenConsumed, aborted, awaitedVars,
                   requestsSent, noteVars, delayVars, consumes, refunds,
                   terminalFailed, abortedAt, authRefreshed, levelBefore, refreshes>>

\* plugin.ts:807-843: an account whose access token is expired or missing
SelectAndRefresh ==
    /\ pc = "select"
    /\ ~aborted
    /\ selectForFamily # None
    /\ accessTokenExpired(selectForFamily)
    /\ Selected(selectForFamily)
    /\ refreshes < MaxRefreshes
    /\ refreshes' = refreshes + 1
    /\ pc' = "jitRefresh"
    /\ UNCHANGED <<cfgVars, offVars, now, enabled, cooldownVars, rateLimitReset,
                   lastUsed, credVars, saveRequests, trackerVars, result,
                   tokenConsumed, aborted, sleepMs, awaitedVars,
                   requestsSent, waits, noteVars, consumes, refunds,
                   terminalFailed, abortedAt, authRefreshed, levelBefore>>

\* plugin.ts:807-930: an account with a valid access token
SelectAndSend(limit) ==
    /\ pc = "select"
    /\ ~aborted
    /\ selectForFamily # None
    /\ ~accessTokenExpired(selectForFamily)
    /\ Selected(selectForFamily)
    /\ SendRequest(selectForFamily, limit)
    /\ UNCHANGED <<cfgVars, offVars, now, enabled, cooldownVars, rateLimitReset,
                   lastUsed, credVars, saveRequests, healthVars, result,
                   aborted, sleepMs, awaitedVars, waits, refreshes, noteVars, refunds,
                   terminalFailed, abortedAt, authRefreshed>>


\* ------------------------------------------------------- ResolveToken step

\* token.ts:68-139: the awaited refreshAccessToken settles
RefreshResolves ==
    /\ pc \in {"jitRefresh", "authRefresh"}
    /\ \E o \in RefreshOutcomes : refreshOutcome' = o
    /\ pc' = IF pc = "jitRefresh" THEN "jitRefreshed" ELSE "authRefreshed"
    /\ UNCHANGED <<cfgVars, offVars, now, poolVars, trackerVars, result, account,
                   counterVars, tokenConsumed, aborted, sleepMs, response,
                   histVars>>

\* accountManager.updateFromAuth(account, refreshed)
updateFromAuth(a) ==
    /\ hasAccess' = [hasAccess EXCEPT ![a] = TRUE]
    /\ expires' = [expires EXCEPT ![a] = now + RefreshedLifetimeMs]

\* plugin.ts:856-859 and 986-988
DisableAccount(a) ==
    /\ enabled' = [enabled EXCEPT ![a] = FALSE]
    /\ markCoolingDown(a, TerminalCooldownMs, "auth-failure")
    /\ requestSave
    /\ terminalFailed' = terminalFailed \cup {a}

\* plugin.ts:843-848 then 871-930
JitRefreshed(limit) ==
    /\ pc = "jitRefreshed"
    /\ refreshOutcome' = NoRefresh
    /\ refreshOutcome.kind = "ok"
    /\ updateFromAuth(account)
    /\ requestSave
    /\ SendRequest(account, limit)
    /\ UNCHANGED <<cfgVars, offVars, now, enabled, cooldownVars, rateLimitReset,
                   lastUsed, selVars, healthVars, result, account,
                   counterVars, aborted, sleepMs, response, waits, refreshes,
                   noteVars, delayVars, refunds, terminalFailed, abortedAt, authRefreshed>>

\* plugin.ts:849-860, 866-867
JitRefreshTerminal ==
    /\ pc = "jitRefreshed"
    /\ refreshOutcome' = NoRefresh
    /\ IsTerminalRefreshError(refreshOutcome)
    /\ DisableAccount(account)
    /\ pc' = "select"
    /\ UNCHANGED <<cfgVars, offVars, now, rateLimitReset, lastUsed, credVars, selVars,
                   trackerVars, result, account, counterVars, tokenConsumed,
                   aborted, sleepMs, response, requestsSent, waits, refreshes,
                   noteVars, delayVars, consumes, refunds, abortedAt, authRefreshed, levelBefore>>

\* plugin.ts:861-867
JitRefreshTransient ==
    /\ pc = "jitRefreshed"
    /\ refreshOutcome' = NoRefresh
    /\ refreshOutcome.kind = "error"
    /\ ~IsTerminalRefreshError(refreshOutcome)
    /\ markCoolingDown(account, AuthCooldownMs, "auth-failure")
    /\ requestSave
    /\ pc' = "select"
    /\ UNCHANGED <<cfgVars, offVars, now, enabled, rateLimitReset, lastUsed, credVars,
                   selVars, trackerVars, result, account, counterVars,
                   tokenConsumed, aborted, sleepMs, response, histVars>>

\* token.ts:134-137 returned undefined; plugin.ts:871-878: no access token
JitRefreshUndefinedNoToken ==
    /\ pc = "jitRefreshed"
    /\ refreshOutcome' = NoRefresh
    /\ refreshOutcome.kind = "undefined"
    /\ ~hasAccess[account]
    /\ markCoolingDown(account, AuthCooldownMs, "auth-failure")
    /\ requestSave
    /\ pc' = "select"
    /\ UNCHANGED <<cfgVars, offVars, now, enabled, rateLimitReset, lastUsed, credVars,
                   selVars, trackerVars, result, account, counterVars,
                   tokenConsumed, aborted, sleepMs, response, histVars>>

\* token.ts:134-137 returned undefined; plugin.ts:844 skips the update and
\* 871-930 sends with the access token the account still holds
JitRefreshUndefinedSend(limit) ==
    /\ pc = "jitRefreshed"
    /\ refreshOutcome' = NoRefresh
    /\ refreshOutcome.kind = "undefined"
    /\ hasAccess[account]
    /\ SendRequest(account, limit)
    /\ UNCHANGED <<cfgVars, offVars, now, poolVars, healthVars, result, account,
                   counterVars, aborted, sleepMs, response, waits, refreshes,
                   noteVars, delayVars, refunds, terminalFailed, abortedAt, authRefreshed>>

\* plugin.ts:975-980
AuthRefreshed ==
    /\ pc = "authRefreshed"
    /\ refreshOutcome' = NoRefresh
    /\ refreshOutcome.kind = "ok"
    /\ updateFromAuth(account)
    /\ requestSave
    /\ pc' = "select"
    /\ UNCHANGED <<cfgVars, offVars, now, enabled, cooldownVars, rateLimitReset,
                   lastUsed, selVars, trackerVars, result, account,
                   counterVars, tokenConsumed, aborted, sleepMs, response,
                   histVars>>

\* plugin.ts:981-995
AuthRefreshTerminal ==
    /\ pc = "authRefreshed"
    /\ refreshOutcome' = NoRefresh
    /\ IsTerminalRefreshError(refreshOutcome)
    /\ DisableAccount(account)
    /\ recordFailure(account)
    /\ pc' = "select"
    /\ UNCHANGED <<cfgVars, offVars, now, rateLimitReset, lastUsed, credVars, selVars,
                   tokens, tokensRefill, result, account, counterVars,
                   tokenConsumed, aborted, sleepMs, response, requestsSent,
                   waits, refreshes, noteVars, delayVars, consumes, refunds, abortedAt, authRefreshed, levelBefore>>

\* plugin.ts:976 (undefined) or 981-996 (error swallowed), then 999-1008
AuthRefreshFailed ==
    /\ pc = "authRefreshed"
    /\ refreshOutcome' = NoRefresh
    /\ refreshOutcome.kind # "ok"
    /\ ~IsTerminalRefreshError(refreshOutcome)
    /\ markCoolingDown(account, AuthCooldownMs, "auth-failure")
    /\ requestSave
    /\ recordFailure(account)
    /\ RefundIf(tokenConsumed, account)
    /\ pc' = "select"
    /\ UNCHANGED <<cfgVars, offVars, now, enabled, rateLimitReset, lastUsed, credVars,
                   selVars, tokensRefill, result, account, counterVars,
                   aborted, sleepMs, response, requestsSent, waits, refreshes,
                   noteVars, delayVars, consumes, terminalFailed, abortedAt, authRefreshed, levelBefore>>

\* ----------------------------------------------------------- Dispatch step

\* plugin.ts:930: the awaited fetch settles; a fetch whose signal is aborted
\* rejects
UpstreamResponds(answers) ==
    /\ pc = "inflight"
    /\ \E r \in answers :
          /\ aborted => r = FetchRejected
          /\ response' = r
    /\ pc' = "classify"
    /\ UNCHANGED <<cfgVars, offVars, now, poolVars, trackerVars, result, account,
                   counterVars, tokenConsumed, aborted, sleepMs,
                   refreshOutcome, histVars>>


\* ----------------------------------------------------------- Classify step

\* plugin.ts:934-943
HandleSuccess ==
    /\ pc = "classify"
    /\ response' = NoResponse
    /\ IsOk(response)
    /\ recordSuccess(account)
    /\ markUsed(account)
    /\ requestSave
    /\ Noted
    /\ NoDelays
    /\ pc' = "done"
    /\ result' = "ok"
    /\ UNCHANGED <<cfgVars, offVars, now, enabled, cooldownVars, rateLimitReset,
                   credVars, selVars, tokens, tokensRefill, account,
                   counterVars, tokenConsumed, aborted, sleepMs, refreshOutcome,
                   requestsSent, waits, refreshes, consumes, refunds, terminalFailed, abortedAt, authRefreshed, levelBefore>>

\* plugin.ts:949-965: the throw is inside the try of line 929, so the catch
\* of line 1089 receives it
HandleAccessDenied ==
    /\ pc = "classify"
    /\ response' = NoResponse
    /\ canRetry
    /\ IsAuthError(response)
    /\ IsAccessDenied(response)
    /\ CatchHandler(account)
    /\ Noted
    /\ NoDelays
    /\ UNCHANGED <<cfgVars, offVars, now, enabled, rateLimitReset, lastUsed, credVars,
                   selVars, tokensRefill, result, account, counterVars,
                   aborted, refreshOutcome, requestsSent, waits, refreshes, consumes,
                   terminalFailed, abortedAt, authRefreshed, levelBefore>>

\* plugin.ts:949, 967-975: first auth error on this account
HandleAuthFirst ==
    /\ pc = "classify"
    /\ response' = NoResponse
    /\ canRetry
    /\ IsAuthError(response)
    /\ ~IsAccessDenied(response)
    /\ ~attemptedRefreshForAccount
    /\ attemptedRefreshForAccount' = TRUE
    /\ authRefreshed' = authRefreshed \cup {account}
    /\ RefundIf(tokenConsumed, account)
    /\ refreshes < MaxRefreshes
    /\ refreshes' = refreshes + 1
    /\ Noted
    /\ NoDelays
    /\ pc' = "authRefresh"
    /\ UNCHANGED <<cfgVars, offVars, now, poolVars, healthVars, tokensRefill, result,
                   account, lastAccountIndex, capacityRetryCount, aborted,
                   sleepMs, refreshOutcome, requestsSent, waits, consumes,
                   terminalFailed, abortedAt, levelBefore>>

\* plugin.ts:949, 967, 999-1008: refresh already attempted
HandleAuthAgain ==
    /\ pc = "classify"
    /\ response' = NoResponse
    /\ canRetry
    /\ IsAuthError(response)
    /\ ~IsAccessDenied(response)
    /\ attemptedRefreshForAccount
    /\ markCoolingDown(account, AuthCooldownMs, "auth-failure")
    /\ requestSave
    /\ recordFailure(account)
    /\ RefundIf(tokenConsumed, account)
    /\ Noted
    /\ NoDelays
    /\ pc' = "select"
    /\ UNCHANGED <<cfgVars, offVars, now, enabled, rateLimitReset, lastUsed, credVars,
                   selVars, tokensRefill, result, account, counterVars,
                   aborted, sleepMs, refreshOutcome, requestsSent, waits, refreshes,
                   consumes, terminalFailed, abortedAt, authRefreshed, levelBefore>>

\* plugin.ts:1012-1046: capacity or server error, retries enabled
HandleCapacity ==
    /\ pc = "classify"
    /\ response' = NoResponse
    /\ IsOverloaded(response)
    /\ IsCapacityReason(response)
    /\ canRetry
    /\ RefundIf(tokenConsumed, account)
    /\ \E j \in JitterPermille :
          LET waitMs == JitteredDelay(ExponentialDelay(capacityRetryCount), j)
          IN /\ sleepMs' = waitMs
             /\ prevDelay' = lastDelay
             /\ lastDelay' = waitMs
    /\ capacityRetryCount' = NextCapacityRetryCount(capacityRetryCount)
    /\ Noted
    /\ pc' = "backoffSleep"
    /\ UNCHANGED <<cfgVars, offVars, now, poolVars, healthVars, tokensRefill, result,
                   account, lastAccountIndex, attemptedRefreshForAccount,
                   aborted, refreshOutcome, requestsSent, waits, refreshes, consumes,
                   terminalFailed, abortedAt, authRefreshed, levelBefore>>

\* plugin.ts:1012-1029: capacity or server error, retries disabled
HandleCapacityNoRetry ==
    /\ pc = "classify"
    /\ response' = NoResponse
    /\ IsOverloaded(response)
    /\ IsCapacityReason(response)
    /\ ~canRetry
    /\ RefundIf(tokenConsumed, account)
    /\ Noted
    /\ NoDelays
    /\ pc' = "done"
    /\ result' = "returned"
    /\ UNCHANGED <<cfgVars, offVars, now, poolVars, healthVars, tokensRefill, account,
                   counterVars, aborted, sleepMs, refreshOutcome, requestsSent,
                   waits, refreshes, consumes, terminalFailed, abortedAt, authRefreshed, levelBefore>>

\* markRateLimited (spec 4.3): the family's window of the account
markRateLimited(a, retryAfterMs) ==
    rateLimitReset' = [rateLimitReset EXCEPT ![a] = now + retryAfterMs]

\* plugin.ts:1012-1023, 1048-1069: true rate limit
HandleRateLimit ==
    /\ pc = "classify"
    /\ response' = NoResponse
    /\ IsOverloaded(response)
    /\ ~IsCapacityReason(response)
    /\ RefundIf(tokenConsumed, account)
    /\ recordRateLimit(account)
    /\ markRateLimited(account, response.retryAfterMs)
    /\ requestSave
    /\ Noted
    /\ NoDelays
    /\ pc' = "select"
    /\ UNCHANGED <<cfgVars, offVars, now, enabled, cooldownVars, lastUsed, credVars,
                   selVars, tokensRefill, result, account, counterVars,
                   aborted, sleepMs, refreshOutcome, requestsSent, waits, refreshes,
                   consumes, terminalFailed, abortedAt, authRefreshed, levelBefore>>

\* a response that reaches line 1072: not ok, not an auth error handled at
\* 949 (which needs canRetry), not 429/503/529
ReachesOtherBranch(r) ==
    /\ r.status # 0
    /\ ~IsOk(r)
    /\ ~(IsAuthError(r) /\ canRetry)
    /\ ~IsOverloaded(r)

\* faulty variant: the response is handed back whether or not retries are
\* enabled
HandleReturnUnretried_Always ==
    /\ pc = "classify"
    /\ response' = NoResponse
    /\ ReachesOtherBranch(response)
    /\ Noted
    /\ NoDelays
    /\ pc' = "done"
    /\ result' = "returned"
    /\ UNCHANGED <<cfgVars, offVars, now, poolVars, trackerVars, account, counterVars,
                   tokenConsumed, aborted, sleepMs, refreshOutcome,
                   requestsSent, waits, refreshes, consumes, refunds,
                   terminalFailed, abortedAt, authRefreshed, levelBefore>>

\* plugin.ts:1072-1075
HandleReturnUnretried ==
    /\ pc = "classify"
    /\ response' = NoResponse
    /\ ReachesOtherBranch(response)
    /\ ~canRetry
    /\ Noted
    /\ NoDelays
    /\ pc' = "done"
    /\ result' = "returned"
    /\ UNCHANGED <<cfgVars, offVars, now, poolVars, trackerVars, account, counterVars,
                   tokenConsumed, aborted, sleepMs, refreshOutcome, requestsSent,
                   waits, refreshes, consumes, refunds, terminalFailed, abortedAt, authRefreshed, levelBefore>>

\* plugin.ts:1077-1088
HandleOtherError ==
    /\ pc = "classify"
    /\ response' = NoResponse
    /\ ReachesOtherBranch(response)
    /\ canRetry
    /\ recordFailure(account)
    /\ markCoolingDown(account, NetworkCooldownMs, "network-error")
    /\ requestSave
    /\ Noted
    /\ NoDelays
    /\ pc' = "pauseSleep"
    /\ sleepMs' = PauseMs
    /\ UNCHANGED <<cfgVars, offVars, now, enabled, rateLimitReset, lastUsed, credVars,
                   selVars, tokens, tokensRefill, result, account,
                   counterVars, tokenConsumed, aborted, refreshOutcome,
                   requestsSent, waits, refreshes, consumes, refunds, terminalFailed, abortedAt, authRefreshed, levelBefore>>

\* plugin.ts:930 rejected, 1089-1106
HandleFetchRejected ==
    /\ pc = "classify"
    /\ response' = NoResponse
    /\ response.status = 0
    /\ CatchHandler(account)
    /\ Noted
    /\ NoDelays
    /\ UNCHANGED <<cfgVars, offVars, now, enabled, rateLimitReset, lastUsed, credVars,
                   selVars, tokensRefill, result, account, counterVars,
                   aborted, refreshOutcome, requestsSent, waits, refreshes, consumes,
                   terminalFailed, abortedAt, authRefreshed, levelBefore>>

\* ------------------------------------------------------------------ sleeps

\* plugin.ts:248-258: the timeout of a sleep fires
SleepDone ==
    /\ pc \in {"waitSleep", "backoffSleep", "pauseSleep", "catchSleep"}
    /\ ~aborted
    /\ now' = now + sleepMs
    /\ pc' = "select"
    /\ UNCHANGED <<cfgVars, offVars, poolVars, trackerVars, result, account,
                   counterVars, tokenConsumed, aborted, sleepMs, awaitedVars,
                   histVars>>

\* plugin.ts:250-252, 260-263: a sleep outside the try (829, 1105) rejects
\* and the call throws the abort reason
SleepAbortedThrows ==
    /\ pc \in {"waitSleep", "catchSleep"}
    /\ aborted
    /\ pc' = "done"
    /\ result' = "aborted"
    /\ UNCHANGED <<cfgVars, offVars, now, poolVars, trackerVars, account, counterVars,
                   tokenConsumed, aborted, sleepMs, awaitedVars, histVars>>

\* plugin.ts:1044 and 1087: a sleep inside the try rejects, 1089-1106
SleepAbortedCaught ==
    /\ pc \in {"backoffSleep", "pauseSleep"}
    /\ aborted
    /\ CatchHandler(account)
    /\ UNCHANGED <<cfgVars, offVars, now, enabled, rateLimitReset, lastUsed, credVars,
                   selVars, tokensRefill, result, account, counterVars,
                   aborted, awaitedVars, requestsSent, waits, refreshes, noteVars,
                   delayVars, consumes, terminalFailed, abortedAt, authRefreshed, levelBefore>>

\* the caller's AbortSignal fires while the call is suspended in a sleep, in
\* the upstream fetch or in a token refresh
Abort ==
    /\ pc \in {"waitSleep", "backoffSleep", "pauseSleep", "catchSleep",
               "inflight", "jitRefresh", "authRefresh"}
    /\ ~aborted
    /\ aborted' = TRUE
    /\ abortedAt' = pc
    /\ UNCHANGED <<cfgVars, offVars, now, poolVars, trackerVars, pc, result, account,
                   counterVars, tokenConsumed, sleepMs, awaitedVars,
                   requestsSent, waits, refreshes, noteVars, delayVars,
                   consumes, refunds, terminalFailed, authRefreshed,
                   levelBefore>>

\* ---------------------------------------------------------- specifications

Next ==
    \/ LoopTopAborted
    \/ SelectNoneThrow
    \/ SelectNoneWait
    \/ SelectAndRefresh
    \/ SelectAndSend(MaxRequests)
    \/ RefreshResolves
    \/ JitRefreshed(MaxRequests)
    \/ JitRefreshTerminal
    \/ JitRefreshTransient
    \/ JitRefreshUndefinedNoToken
    \/ JitRefreshUndefinedSend(MaxRequests)
    \/ AuthRefreshed
    \/ AuthRefreshTerminal
    \/ AuthRefreshFailed
    \/ UpstreamResponds(Responses)
    \/ HandleSuccess
    \/ HandleAccessDenied
    \/ HandleAuthFirst
    \/ HandleAuthAgain
    \/ HandleCapacity
    \/ HandleCapacityNoRetry
    \/ HandleRateLimit
    \/ HandleReturnUnretried
    \/ HandleOtherError
    \/ HandleFetchRejected
    \/ SleepDone
    \/ SleepAbortedThrows
    \/ SleepAbortedCaught
    \/ Abort

Spec == Init /\ [][Next]_vars


\* A call with a buffered body and fresh tokens against an upstream that keeps
\* answering 503 / 529 with a capacity or server error.
InitBackoff ==
    /\ strategy \in Strategies
    /\ canRetry = TRUE
    /\ maxWaitMs = 0
    /\ DefaultTrackers
    /\ NoStore
    /\ FreshPool
    /\ FreshContext
    /\ hasAccess = [a \in Accounts |-> TRUE]
    /\ expires = [a \in Accounts |-> RefreshedLifetimeMs]
    /\ tokens = [a \in Accounts |-> tokenConfig.initialTokens * TokenScale]
    /\ rateLimitReset = [a \in Accounts |-> 0]

NextBackoff ==
    \/ SelectAndSend(MaxBackoffRequests)
    \/ UpstreamResponds(CapacityResponses)
    \/ HandleCapacity
    \/ SleepDone

SpecBackoff == InitBackoff /\ [][NextBackoff]_vars

\* ------------------------------------------- account pool under selection

\* idle times of the spec's hybrid example (1000 s and 10 s), in ms
IdleLongMs == 1000 * 1000

IdleShortMs == 10 * 1000

\* what an account of a pool in use looks like to the hybrid strategy: the
\* two accounts of the spec's example (section 8)
Profiles ==
    {[health |-> 80, tokens |-> MaxTokens, idle |-> IdleShortMs],
     [health |-> 40, tokens |-> 0, idle |-> IdleLongMs]}

\* A pool in use, every account enabled and out of every cooldown and
\* rate-limit window.  The index sticky starts from is any index (it is
\* offset by processId mod poolSize when the PID offset is enabled).
InitSelect ==
    /\ strategy \in Strategies
    /\ canRetry = TRUE
    /\ maxWaitMs = 0
    /\ DefaultTrackers
    /\ NoStore
    /\ FreshContext
    /\ now = IdleLongMs
    /\ enabled = [a \in Accounts |-> TRUE]
    /\ cooldownUntil = [a \in Accounts |-> 0]
    /\ cooldownReason = [a \in Accounts |-> "none"]
    /\ rateLimitReset = [a \in Accounts |-> 0]
    /\ hasAccess = [a \in Accounts |-> TRUE]
    /\ expires = [a \in Accounts |-> IdleLongMs + RefreshedLifetimeMs]
    /\ activeIndex \in (IF strategy = "sticky" THEN Accounts ELSE {0})
    /\ rrCursor = 0
    /\ saveRequests = 0
    /\ healthUpdated = [a \in Accounts |-> IdleLongMs]
    /\ tokensRefill = [a \in Accounts |-> IdleLongMs]
    /\ \E prof \in [Accounts -> Profiles] :
          /\ strategy # "hybrid" => \A a \in Accounts : prof[a] = prof[0]
          /\ strategy # "hybrid" => prof[0].health = 80
          /\ healthScore = [a \in Accounts |-> prof[a].health * HourMs]
          /\ tokens = [a \in Accounts |-> prof[a].tokens * TokenScale]
          /\ lastUsed = [a \in Accounts |-> IdleLongMs - prof[a].idle]

\* one call of getCurrentOrNextForFamily that returns an account
SelectCall ==
    /\ selectForFamily # None
    /\ Selected(selectForFamily)
    /\ prevAccount' = account
    /\ UNCHANGED <<cfgVars, offVars, now, enabled, cooldownVars,
                   rateLimitReset, lastUsed, credVars, saveRequests,
                   trackerVars, pc, result, tokenConsumed, aborted, sleepMs,
                   awaitedVars, requestsSent, waits, refreshes, prevOutcome,
                   consumes, refunds, terminalFailed, abortedAt,
                   authRefreshed, levelBefore>>

\* markAccountCoolingDown after an auth failure of account a
CoolDownAccount(a) ==
    /\ poolOps < MaxPoolOps
    /\ poolOps' = poolOps + 1
    /\ markCoolingDown(a, AuthCooldownMs, "auth-failure")
    /\ UNCHANGED <<cfgVars, storeVars, now, enabled, rateLimitReset, lastUsed, credVars,
                   selVars, saveRequests, trackerVars, ctxVars, histVars>>

\* markRateLimitedWithReason after a true rate limit on account a
RateLimitAccount(a) ==
    /\ poolOps < MaxPoolOps
    /\ poolOps' = poolOps + 1
    /\ markRateLimited(a, 400000)
    /\ UNCHANGED <<cfgVars, storeVars, now, enabled, cooldownVars, lastUsed, credVars,
                   selVars, saveRequests, trackerVars, ctxVars, histVars>>

\* setAccountEnabled(a, false)
DisableOnly(a) ==
    /\ poolOps < MaxPoolOps
    /\ poolOps' = poolOps + 1
    /\ enabled[a]
    /\ enabled' = [enabled EXCEPT ![a] = FALSE]
    /\ UNCHANGED <<cfgVars, storeVars, now, cooldownVars, rateLimitReset, lastUsed,
                   credVars, selVars, saveRequests, trackerVars, ctxVars,
                   histVars>>

\* a minute passes (counted with the operations on the pool)
Elapse ==
    /\ poolOps < MaxPoolOps
    /\ poolOps' = poolOps + 1
    /\ now' = now + AuthCooldownMs
    /\ UNCHANGED <<cfgVars, storeVars, poolVars, trackerVars, ctxVars,
                   histVars>>

NextSelect ==
    \/ SelectCall
    \/ \E a \in Accounts : CoolDownAccount(a)
    \/ \E a \in Accounts : RateLimitAccount(a)
    \/ \E a \in Accounts : DisableOnly(a)
    \/ Elapse

SpecSelect == InitSelect /\ [][NextSelect]_vars

\* ------------------------------------------------ trackers on their own

\* part_002:251-259: initial in 0..100, max_score in 50..100, each checked
\* on its own; the ends of the ranges and the defaults
SchemaHealthConfigs ==
    {[initial |-> i, maxScore |-> m] : i \in {0, HealthInitial, 100},
                                       m \in {50, MaxScore}}

\* part_002:265-269: max_tokens and initial_tokens in 1..1000, each checked
\* on its own; the low end and the defaults
SchemaTokenConfigs ==
    {[maxTokens |-> m, initialTokens |-> i] : m \in {1, MaxTokens},
                                              i \in {1, InitialTokens}}

\* plugin.ts:542-561: the trackers are initialised with the values of the
\* configuration as the schema accepted them; every account starts at the
\* configured initial score and token count
InitTrackers ==
    /\ strategy = "hybrid"
    /\ canRetry = TRUE
    /\ maxWaitMs = 0
    /\ healthConfig \in SchemaHealthConfigs
    /\ tokenConfig \in SchemaTokenConfigs
    /\ poolOps = 0
    /\ NoStore
    /\ FreshPool
    /\ FreshContext
    /\ hasAccess = [a \in Accounts |-> TRUE]
    /\ expires = [a \in Accounts |-> RefreshedLifetimeMs]
    /\ tokens = [a \in Accounts |-> tokenConfig.initialTokens * TokenScale]
    /\ rateLimitReset = [a \in Accounts |-> 0]

\* getHealthTracker().recordSuccess / recordRateLimit / recordFailure
TrackHealth(a, delta) ==
    /\ poolOps < MaxPoolOps
    /\ poolOps' = poolOps + 1
    /\ RecordHealth(a, delta)
    /\ UNCHANGED <<cfgVars, storeVars, now, poolVars, tokens, tokensRefill, ctxVars,
                   histVars>>

\* getTokenTracker().consume(a)
Consume(a) ==
    /\ poolOps < MaxPoolOps
    /\ poolOps' = poolOps + 1
    /\ tokens' = TokensAfterConsume(a)
    /\ tokensRefill' = [tokensRefill EXCEPT ![a] = now]
    /\ UNCHANGED <<cfgVars, storeVars, now, poolVars, healthVars, ctxVars, histVars>>

\* getTokenTracker().refund(a)
Refund(a) ==
    /\ poolOps < MaxPoolOps
    /\ poolOps' = poolOps + 1
    /\ tokens' = TokensAfterRefund(a)
    /\ UNCHANGED <<cfgVars, storeVars, now, poolVars, healthVars, tokensRefill, ctxVars,
                   histVars>>

\* a minute passes
ElapseTracked ==
    /\ now < MaxElapses * AuthCooldownMs
    /\ now' = now + AuthCooldownMs
    /\ UNCHANGED <<cfgVars, offVars, poolVars, trackerVars, ctxVars, histVars>>

NextTrackers ==
    \/ \E a \in Accounts : TrackHealth(a, SuccessReward)
    \/ \E a \in Accounts : TrackHealth(a, RateLimitPenalty)
    \/ \E a \in Accounts : TrackHealth(a, FailurePenalty)
    \/ \E a \in Accounts : Consume(a)
    \/ \E a \in Accounts : Refund(a)
    \/ ElapseTracked

SpecTrackers == InitTrackers /\ [][NextTrackers]_vars

\* ------------------------------------------------------- merging the store
\* mergeAccountStorage on its own: a pool read from disk and a pool to save
\* are built account by account, then merged.

\* refresh tokens of the accounts explored; "" is the empty token
RefreshTokens == {"", "rt1", "rt2"}

\* the optional fields of the accounts explored: a disabled account that
\* was never used and has no rateLimitResetTimes, a recently used one that
\* was disabled with a cooldown and is limited for family kimi, and an
\* enabled idle one that carries another family key
AccountShapes ==
    {[lastUsed |-> 0, enabled |-> FALSE],
     [lastUsed |-> 5, enabled |-> FALSE, coolingDownUntil |-> 60,
      rateLimitResetTimes |-> [kimi |-> 100]],
     [lastUsed |-> 0, enabled |-> TRUE,
      rateLimitResetTimes |-> [other |-> 200]]}

\* storage.ts:143-159  AccountMetadata, reduced to the fields the merge
\* reads; an optional field that is absent is absent from the record
AccountMetadata ==
    {[f \in {"refreshToken"} \cup DOMAIN shape |->
        IF f = "refreshToken" THEN t ELSE shape[f]] :
        t \in RefreshTokens, shape \in AccountShapes}

\* { ...a, ...b }: the own fields of both, those of b winning
Spread(a, b) ==
    [f \in DOMAIN a \cup DOMAIN b |-> IF f \in DOMAIN b THEN b[f] ELSE a[f]]

\* acc.rateLimitResetTimes as the spread reads it: undefined spreads nothing
ResetTimesOf(acc) ==
    IF "rateLimitResetTimes" \in DOMAIN acc THEN acc.rateLimitResetTimes
    ELSE <<>>

\* faulty variant: the reset times of the incoming account alone
MergedResetTimes_IncomingOnly(existingAcc, acc) == ResetTimesOf(acc)

\* storage.ts:366-369
MergedResetTimes(existingAcc, acc) ==
    Spread(ResetTimesOf(existingAcc), ResetTimesOf(acc))

\* faulty variant: lastUsed of the incoming account, not the maximum
MergedAccount_IncomingLastUsed(existingAcc, acc) ==
    Spread(Spread(existingAcc, acc),
           [rateLimitResetTimes |-> MergedResetTimes(existingAcc, acc)])

\* storage.ts:363-371  the account stored for a token both pools hold
MergedAccount(existingAcc, acc) ==
    Spread(Spread(existingAcc, acc),
           [rateLimitResetTimes |-> MergedResetTimes(existingAcc, acc),
            lastUsed |-> Max(existingAcc.lastUsed, acc.lastUsed)])

\* accountMap as the list of its values in insertion order
MapIndex(accountMap, token) ==
    {i \in DOMAIN accountMap : accountMap[i].refreshToken = token}

MapHas(accountMap, token) == MapIndex(accountMap, token) # {}

MapGet(accountMap, token) ==
    accountMap[CHOOSE i \in MapIndex(accountMap, token) : TRUE]

\* Map.prototype.set: a key already present keeps its position
MapSet(accountMap, acc) ==
    IF MapHas(accountMap, acc.refreshToken)
    THEN [i \in DOMAIN accountMap |->
            IF accountMap[i].refreshToken = acc.refreshToken THEN acc
            ELSE accountMap[i]]
    ELSE Append(accountMap, acc)

\* storage.ts:353-357  the first loop, over existing.accounts
RECURSIVE SetExisting(_, _)
SetExisting(accountMap, accounts) ==
    IF accounts = <<>> THEN accountMap
    ELSE LET acc == Head(accounts)
         IN  SetExisting(IF acc.refreshToken # "" THEN MapSet(accountMap, acc)
                         ELSE accountMap,
                         Tail(accounts))

\* storage.ts:359-376  the second loop, over incoming.accounts
RECURSIVE SetIncoming(_, _)
SetIncoming(accountMap, accounts) ==
    IF accounts = <<>> THEN accountMap
    ELSE LET acc == Head(accounts)
         IN  SetIncoming(
                IF acc.refreshToken = "" THEN accountMap
                ELSE IF MapHas(accountMap, acc.refreshToken)
                     THEN MapSet(accountMap,
                                 MergedAccount(MapGet(accountMap,
                                                      acc.refreshToken), acc))
                     ELSE MapSet(accountMap, acc),
                Tail(accounts))

\* storage.ts:347-384
mergeAccountStorage(ex, inc) ==
    Spread([version |-> 1,
            accounts |-> SetIncoming(SetExisting(<<>>, ex.accounts),
                                     inc.accounts),
            activeIndex |-> inc.activeIndex],
           IF "activeIndexByFamily" \in DOMAIN inc
           THEN [activeIndexByFamily |-> inc.activeIndexByFamily]
           ELSE <<>>)

\* the non-empty refresh tokens of a pool
TokensOf(storage) ==
    {storage.accounts[i].refreshToken : i \in DOMAIN storage.accounts} \ {""}

\* an account a pool can take: the pool is short of MaxStoreAccounts, and
\* no two accounts of a pool carry the same non-empty refresh token (an
\* authorization whose token the pool knows updates that account)
CanAdd(storage, acc) ==
    /\ Len(storage.accounts) < MaxStoreAccounts
    /\ acc.refreshToken \notin TokensOf(storage)

InitMerge ==
    /\ strategy = "sticky"
    /\ canRetry = TRUE
    /\ maxWaitMs = 0
    /\ DefaultTrackers
    /\ NoStore
    /\ FreshPool
    /\ FreshContext
    /\ hasAccess = [a \in Accounts |-> TRUE]
    /\ expires = [a \in Accounts |-> RefreshedLifetimeMs]
    /\ tokens = [a \in Accounts |-> tokenConfig.initialTokens * TokenScale]
    /\ rateLimitReset = [a \in Accounts |-> 0]

\* another process saved a pool holding one more account
AddExisting(acc) ==
    /\ merged = <<>>
    /\ CanAdd(existing, acc)
    /\ existing' = [existing EXCEPT !.accounts = Append(@, acc)]
    /\ UNCHANGED <<cfgVars, now, poolVars, trackerVars, ctxVars, histVars,
                   poolOps, configVars, dedupVars, diskVars, incoming,
                   merged>>

\* this process holds one more account
AddIncoming(acc) ==
    /\ merged = <<>>
    /\ CanAdd(incoming, acc)
    /\ incoming' = [incoming EXCEPT !.accounts = Append(@, acc)]
    /\ UNCHANGED <<cfgVars, now, poolVars, trackerVars, ctxVars, histVars,
                   poolOps, configVars, dedupVars, diskVars, existing,
                   merged>>

\* storage.ts:512  merged = mergeAccountStorage(existing, storage)
MergeCall ==
    /\ merged = <<>>
    /\ merged' = <<mergeAccountStorage(existing, incoming)>>
    /\ UNCHANGED <<cfgVars, now, poolVars, trackerVars, ctxVars, histVars,
                   poolOps, configVars, dedupVars, diskVars, existing,
                   incoming>>

NextMerge ==
    \/ \E acc \in AccountMetadata : AddExisting(acc)
    \/ \E acc \in AccountMetadata : AddIncoming(acc)
    \/ MergeCall

SpecMerge == InitMerge /\ [][NextMerge]_vars

\* a pool on disk that other processes wrote meanwhile and the pool a
\* process holds, with its own view of the limits and its own active
\* account
StaleTokens == {"rt1", "rt2", "rt3"}

\* rateLimitResetTimes as a process can hold them: none, an early reset
\* time, a later one
StaleShapes ==
    {[lastUsed |-> 0], [lastUsed |-> 0, rateLimitResetTimes |-> [kimi |-> 50]],
     [lastUsed |-> 0, rateLimitResetTimes |-> [kimi |-> 100]]}

StaleAccounts ==
    {Spread([refreshToken |-> t], shape) :
        t \in StaleTokens, shape \in StaleShapes}

\* lists of at most MaxStoreAccounts accounts with distinct refresh tokens
RECURSIVE StaleLists(_)
StaleLists(n) ==
    IF n = 0 THEN {<<>>}
    ELSE StaleLists(n - 1)
         \cup {Append(accounts, acc) :
                 <<accounts, acc>> \in
                     {pair \in StaleLists(n - 1) \X StaleAccounts :
                         /\ Len(pair[1]) = n - 1
                         /\ \A i \in DOMAIN pair[1] :
                               pair[1][i].refreshToken # pair[2].refreshToken}}

InitMergeStale ==
    /\ strategy = "sticky"
    /\ canRetry = TRUE
    /\ maxWaitMs = 0
    /\ DefaultTrackers
    /\ NoDedup
    /\ NoDisk
    /\ NoConfig
    /\ FreshPool
    /\ FreshContext
    /\ hasAccess = [a \in Accounts |-> TRUE]
    /\ expires = [a \in Accounts |-> RefreshedLifetimeMs]
    /\ tokens = [a \in Accounts |-> tokenConfig.initialTokens * TokenScale]
    /\ rateLimitReset = [a \in Accounts |-> 0]
    /\ merged = <<>>
    /\ \E accounts \in StaleLists(MaxStoreAccounts) :
          existing = [version |-> 1, accounts |-> accounts, activeIndex |-> 0]
    /\ \E accounts \in StaleLists(MaxStoreAccounts) \ {<<>>} :
          \E index \in 0 .. Len(accounts) - 1 :
             incoming = [version |-> 1, accounts |-> accounts,
                         activeIndex |-> index,
                         activeIndexByFamily |-> [kimi |-> index]]

NextMergeStale == MergeCall

SpecMergeStale == InitMergeStale /\ [][NextMergeStale]_vars

\* ------------------------------------------------- deduplication by email
\* deduplicateAccountsByEmail on its own: a list of accounts is built entry
\* by entry, then deduplicated.

\* user ids (email) of the accounts explored; "" is the empty string
Emails == {"", "u1", "u2"}

\* refresh token of the entry at each position of a list: every entry has
\* its own, which tells entries that agree on every other field apart
TokenAt == <<"rt1", "rt2", "rt3", "rt4">>

\* lastUsed, addedAt and email (optional) of the entries explored
RawShapes ==
    {[lastUsed |-> u, addedAt |-> d] : u \in {0, 5}, d \in {1, 2}}
    \cup {[lastUsed |-> u, addedAt |-> d, email |-> m] :
            u \in {0, 5}, d \in {1, 2}, m \in Emails}

\* !!acc: the entry is not null
IsEntry(acc) == "isNull" \notin DOMAIN acc

\* acc.email is truthy
HasEmail(acc) == "email" \in DOMAIN acc /\ acc.email # ""

\* faulty variant: a later entry wins a tie
IsNewer_OrSame(curr, exist) ==
    \/ curr.lastUsed > exist.lastUsed
    \/ curr.lastUsed = exist.lastUsed /\ curr.addedAt >= exist.addedAt

\* storage.ts:413-420
IsNewer(curr, exist) ==
    \/ curr.lastUsed > exist.lastUsed
    \/ curr.lastUsed = exist.lastUsed /\ curr.addedAt > exist.addedAt

\* Map.prototype.set on emailToNewestIndex
SetNewest(emailToNewestIndex, email, i) ==
    [m \in DOMAIN emailToNewestIndex \cup {email} |->
        IF m = email THEN i ELSE emailToNewestIndex[m]]

\* storage.ts:392-425  the first loop, from index i on
RECURSIVE NewestIndexFrom(_, _, _)
NewestIndexFrom(accounts, i, emailToNewestIndex) ==
    IF i > Len(accounts) THEN emailToNewestIndex
    ELSE LET acc == accounts[i]
         IN  NewestIndexFrom(accounts, i + 1,
                IF ~IsEntry(acc) \/ ~HasEmail(acc) THEN emailToNewestIndex
                ELSE IF acc.email \notin DOMAIN emailToNewestIndex
                     THEN SetNewest(emailToNewestIndex, acc.email, i)
                     ELSE IF IsNewer(acc,
                                accounts[emailToNewestIndex[acc.email]])
                          THEN SetNewest(emailToNewestIndex, acc.email, i)
                          ELSE emailToNewestIndex)

\* storage.ts:396-398, 427-429
IndicesToKeep(accounts) ==
    LET emailToNewestIndex == NewestIndexFrom(accounts, 1, <<>>)
    IN  {i \in DOMAIN accounts :
            IsEntry(accounts[i]) /\ ~HasEmail(accounts[i])}
        \cup {emailToNewestIndex[m] : m \in DOMAIN emailToNewestIndex}

\* storage.ts:431-439  the entries to keep, in the order of the list
RECURSIVE KeptFrom(_, _, _)
KeptFrom(accounts, i, indicesToKeep) ==
    IF i > Len(accounts) THEN <<>>
    ELSE IF i \in indicesToKeep
         THEN <<accounts[i]>> \o KeptFrom(accounts, i + 1, indicesToKeep)
         ELSE KeptFrom(accounts, i + 1, indicesToKeep)

\* storage.ts:386-442
deduplicateAccountsByEmail(accounts) ==
    KeptFrom(accounts, 1, IndicesToKeep(accounts))

InitDedup ==
    /\ strategy = "sticky"
    /\ canRetry = TRUE
    /\ maxWaitMs = 0
    /\ DefaultTrackers
    /\ NoStore
    /\ FreshPool
    /\ FreshContext
    /\ hasAccess = [a \in Accounts |-> TRUE]
    /\ expires = [a \in Accounts |-> RefreshedLifetimeMs]
    /\ tokens = [a \in Accounts |-> tokenConfig.initialTokens * TokenScale]
    /\ rateLimitReset = [a \in Accounts |-> 0]

\* the file holds one more entry
AddRaw(shape) ==
    /\ deduped = <<>>
    /\ Len(rawAccounts) < MaxRawAccounts
    /\ rawAccounts' =
          Append(rawAccounts,
                 Spread(shape,
                        [refreshToken |-> TokenAt[Len(rawAccounts) + 1]]))
    /\ UNCHANGED <<cfgVars, now, poolVars, trackerVars, ctxVars, histVars,
                   poolOps, configVars, mergeVars, diskVars, deduped>>

\* storage.ts:474, 574  deduplicateAccountsByEmail(accounts)
DedupCall ==
    /\ deduped = <<>>
    /\ deduped' = <<deduplicateAccountsByEmail(rawAccounts)>>
    /\ UNCHANGED <<cfgVars, now, poolVars, trackerVars, ctxVars, histVars,
                   poolOps, configVars, mergeVars, diskVars, rawAccounts>>

NextDedup ==
    \/ \E shape \in RawShapes : AddRaw(shape)
    \/ DedupCall

SpecDedup == InitDedup /\ [][NextDedup]_vars

\* --------------------------------------------------- the store on disk
\* Two processes share the store file.  Each holds a pool in memory and
\* saves it with saveAccounts, or records a login with persistAccountPool;
\* every await of these operations is a step.  A reader loads the file
\* without taking the lock.

\* Date.now() of a login (plugin.ts:383)
LoginTime == 9

\* the accounts explored: one with a user id, the same after its refresh
\* token was rotated, another user's, one without user id, and the same
\* after its refresh token was rotated
AcctA == [refreshToken |-> "rt1", email |-> "u1", addedAt |-> 1, lastUsed |-> 1]

AcctARotated ==
    [refreshToken |-> "rt1r", email |-> "u1", addedAt |-> 1, lastUsed |-> 2]

AcctB == [refreshToken |-> "rt2", email |-> "u2", addedAt |-> 1, lastUsed |-> 1]

AcctN == [refreshToken |-> "rt3", addedAt |-> 1, lastUsed |-> 1]

AcctNRotated == [refreshToken |-> "rt3r", addedAt |-> 1, lastUsed |-> 2]

\* plugin.ts:93-106  extractKimiUserIdFromJwt; "" stands for undefined
\* the refresh tokens logins obtain, one per user, and the users; "s0" is
\* a further token of the first user
SessionTokens ==
    <<"s1", "s2", "s3", "s4", "s5", "s6", "s7", "s8", "s9", "s10", "s11",
      "s12", "s13", "s14">>

SessionUsers ==
    <<"v1", "v2", "v3", "v4", "v5", "v6", "v7", "v8", "v9", "v10", "v11",
      "v12", "v13", "v14">>

UserIdOf(refreshToken) ==
    CASE refreshToken \in {"rt1", "rt1r"} -> "u1"
      [] refreshToken = "s0" -> "v1"
      [] \E k \in DOMAIN SessionTokens : SessionTokens[k] = refreshToken ->
            SessionUsers[CHOOSE k \in DOMAIN SessionTokens :
                            SessionTokens[k] = refreshToken]
      [] refreshToken = "rt2" -> "u2"
      [] refreshToken = "rt4" -> "u4"
      [] OTHER -> ""

\* a pool whose active index is its first account
PoolOf(accounts) ==
    [version |-> 1, accounts |-> accounts, activeIndex |-> 0,
     activeIndexByFamily |-> [kimi |-> 0]]

\* data.version, 0 when the document has none
VersionOf(data) == IF "version" \in DOMAIN data THEN data.version ELSE 0

\* Array.isArray(data.accounts): a document whose accounts field is not an
\* array is one without the field here
HasAccountsArray(data) == "accounts" \in DOMAIN data

\* storage.ts:464-472  the filter of loadAccounts
IsValidEntry(a) == IsEntry(a) /\ "refreshToken" \in DOMAIN a

\* Math.max(0, Math.min(i, n - 1))
ClampIndex(i, n) == Max(0, Min(i, n - 1))

\* storage.ts:464-472
ValidAccounts(accounts) == SelectSeq(accounts, IsValidEntry)

\* what the try block of loadAccounts throws: fs.readFile on a missing or
\* unreadable file, JSON.parse on invalid JSON, data.accounts on the JSON
\* value null
ThrownByLoad(file) ==
    CASE file.kind = "missing" -> "ENOENT"
      [] file.kind = "unreadable" -> "EACCES"
      [] file.kind = "invalid" -> "SyntaxError"
      [] file.kind = "null" -> "TypeError"
      [] OTHER -> "none"

\* the result of a load: whether the call threw, and the value it
\* returned, <<>> standing for null
Returned(value) == [called |-> TRUE, threw |-> FALSE, value |-> value]

Thrown == [called |-> TRUE, threw |-> TRUE, value |-> <<>>]

\* faulty variant: only a missing file is recovered from
CatchOfLoad_OnlyMissing(error) ==
    IF error = "ENOENT" THEN Returned(<<>>) ELSE Thrown

\* storage.ts:494-501  the catch of loadAccounts
CatchOfLoad(error) == Returned(<<>>)

\* storage.ts:452-493  loadAccounts once the file is read and parsed
LoadedValue(data) ==
    IF ~HasAccountsArray(data) THEN <<>>
    ELSE IF VersionOf(data) # 1 THEN <<>>
    ELSE LET deduplicatedAccounts ==
                deduplicateAccountsByEmail(ValidAccounts(data.accounts))
             fileIndex ==
                IF "activeIndex" \in DOMAIN data THEN data.activeIndex ELSE 0
         IN  <<Spread([version |-> 1,
                       accounts |-> deduplicatedAccounts,
                       activeIndex |->
                           IF Len(deduplicatedAccounts) > 0
                           THEN Max(Min(fileIndex,
                                        Len(deduplicatedAccounts) - 1), 0)
                           ELSE 0],
                      IF "activeIndexByFamily" \in DOMAIN data
                      THEN [activeIndexByFamily |-> data.activeIndexByFamily]
                      ELSE <<>>)>>

\* storage.ts:444-502
loadAccountsOutcome(file) ==
    IF ThrownByLoad(file) # "none" THEN CatchOfLoad(ThrownByLoad(file))
    ELSE Returned(LoadedValue(file.data))

\* the value loadAccounts resolves to
loadAccounts(file) == loadAccountsOutcome(file).value

\* storage.ts:560-583  loadAccountsUnsafe
loadAccountsUnsafe(file) ==
    IF file.kind # "json" THEN <<>>
    ELSE IF VersionOf(file.data) # 1 \/ ~HasAccountsArray(file.data) THEN <<>>
    ELSE <<Spread(file.data,
                  [accounts |->
                      deduplicateAccountsByEmail(file.data.accounts)])>>

\* the last index of the list whose account carries the token / user id
\* (indexByRefreshToken, indexByUserId of plugin.ts:388-400); 0 if none
IndexByRefreshToken(accounts, token) ==
    LET at == {i \in DOMAIN accounts : accounts[i].refreshToken = token}
    IN  IF token = "" \/ at = {} THEN 0
        ELSE CHOOSE i \in at : \A j \in at : j <= i

IndexByUserId(accounts, userId) ==
    LET at == {i \in DOMAIN accounts :
                  HasEmail(accounts[i]) /\ accounts[i].email = userId}
    IN  IF userId = "" \/ at = {} THEN 0
        ELSE CHOOSE i \in at : \A j \in at : j <= i

\* existing.email ?? userId, as the field of the written account
EmailField(acc, userId) ==
    IF "email" \in DOMAIN acc THEN [email |-> acc.email]
    ELSE IF userId # "" THEN [email |-> userId]
    ELSE <<>>

\* faulty variant: a known credential is appended like a new one
PersistedAccounts_AlwaysAppend(accounts, refreshToken) ==
    Append(accounts,
           Spread([refreshToken |-> refreshToken, addedAt |-> LoginTime,
                   lastUsed |-> LoginTime, enabled |-> TRUE],
                  EmailField(<<>>, UserIdOf(refreshToken))))

\* plugin.ts:402-464  the accounts after one credential was recorded
PersistedAccounts(accounts, refreshToken) ==
    LET userId == UserIdOf(refreshToken)
        existingIndex == IndexByRefreshToken(accounts, refreshToken)
        byUserIndex == IndexByUserId(accounts, userId)
    IN  IF refreshToken = "" THEN accounts
        ELSE IF existingIndex # 0
        THEN [accounts EXCEPT ![existingIndex] =
                Spread(Spread(@, EmailField(@, userId)),
                       [refreshToken |-> refreshToken,
                        lastUsed |-> LoginTime,
                        enabled |-> IF "enabled" \in DOMAIN @
                                    THEN @.enabled ELSE TRUE])]
        ELSE IF byUserIndex # 0
        THEN [accounts EXCEPT ![byUserIndex] =
                Spread(Spread(@, EmailField(@, userId)),
                       [refreshToken |-> refreshToken,
                        lastUsed |-> LoginTime,
                        enabled |-> TRUE])]
        ELSE Append(accounts,
                    Spread([refreshToken |-> refreshToken,
                            addedAt |-> LoginTime, lastUsed |-> LoginTime,
                            enabled |-> TRUE],
                           EmailField(<<>>, userId)))

\* plugin.ts:377-486  the payload persistAccountPool writes for one
\* credential; storedPool is what loadAccounts returned (null if replaceAll)
PersistPayload(storedPool, refreshToken, replaceAll) ==
    LET accounts ==
            PersistedAccounts(IF storedPool = <<>> THEN <<>>
                              ELSE storedPool[1].accounts, refreshToken)
        storedIndex ==
            IF replaceAll \/ storedPool = <<>> THEN 0
            ELSE storedPool[1].activeIndex
    IN  [version |-> 1,
         accounts |-> accounts,
         activeIndex |-> ClampIndex(storedIndex, Len(accounts)),
         activeIndexByFamily |->
            [kimi |-> ClampIndex(storedIndex, Len(accounts))]]

\* the credentials a login can return: a new user's, and a rotated one of
\* a user the pool may know
LoginTokens == {"rt4", "rt1r"}

InitStore ==
    /\ strategy = "sticky"
    /\ canRetry = TRUE
    /\ maxWaitMs = 0
    /\ DefaultTrackers
    /\ NoMerge
    /\ NoDedup
    /\ FreshPool
    /\ FreshContext
    /\ hasAccess = [a \in Accounts |-> TRUE]
    /\ expires = [a \in Accounts |-> RefreshedLifetimeMs]
    /\ tokens = [a \in Accounts |-> tokenConfig.initialTokens * TokenScale]
    /\ rateLimitReset = [a \in Accounts |-> 0]
    /\ IdleProcs
    /\ NoConfig
    /\ disk \in {FileMissing, FileOf(PoolOf(<<>>)), FileOf(PoolOf(<<AcctA>>)),
                 FileOf(PoolOf(<<AcctN>>)), FileOf(PoolOf(<<AcctA, AcctN>>))}
    /\ \E first \in {PoolOf(<<AcctA>>), PoolOf(<<AcctARotated>>),
                     PoolOf(<<AcctNRotated>>), PoolOf(<<AcctA, AcctN>>)},
          second \in {PoolOf(<<AcctB>>), PoolOf(<<AcctA, AcctB>>)} :
          memPool = [p \in Procs |-> IF p = 1 THEN first ELSE second]

\* saveAccounts(memPool[p]) is called
StartSave(p) ==
    /\ storePc[p] = "idle"
    /\ opsDone[p] < MaxStoreOps
    /\ storePc' = [storePc EXCEPT ![p] = "access"]
    /\ storeOp' = [storeOp EXCEPT ![p] = "save"]
    /\ UNCHANGED <<cfgVars, now, poolVars, trackerVars, ctxVars, histVars,
                   poolOps, configVars, mergeVars, dedupVars, fileVars, memPool, stored,
                   toWrite, tempFile, opsDone, readerVars, loginVars>>

\* persistAccountPool([credential], false) is called
StartPersist(p) ==
    /\ storePc[p] = "idle"
    /\ opsDone[p] < MaxStoreOps
    /\ storePc' = [storePc EXCEPT ![p] = "persistLoad"]
    /\ storeOp' = [storeOp EXCEPT ![p] = "replace"]
    /\ UNCHANGED <<cfgVars, now, poolVars, trackerVars, ctxVars, histVars,
                   poolOps, configVars, mergeVars, dedupVars, fileVars, memPool, stored,
                   toWrite, tempFile, opsDone, readerVars, loginVars>>

\* plugin.ts:385-482  loadAccounts() resolves and the payload is built
PersistLoad(p, refreshToken) ==
    /\ storePc[p] = "persistLoad"
    /\ stored' = [stored EXCEPT ![p] = loadAccounts(disk)]
    /\ toWrite' = [toWrite EXCEPT ![p] =
                      PersistPayload(loadAccounts(disk), refreshToken, FALSE)]
    /\ storePc' = [storePc EXCEPT ![p] = "access"]
    /\ UNCHANGED <<cfgVars, now, poolVars, trackerVars, ctxVars, histVars,
                   poolOps, configVars, mergeVars, dedupVars, fileVars, storeOp, memPool,
                   tempFile, opsDone, readerVars, loginVars>>

\* storage.ts:318-320  ensureFileExists: fs.access
CheckAccess(p) ==
    /\ storePc[p] = "access"
    /\ storePc' = [storePc EXCEPT ![p] =
                      IF disk.kind = "missing" THEN "create" ELSE "lock"]
    /\ UNCHANGED <<cfgVars, now, poolVars, trackerVars, ctxVars, histVars,
                   poolOps, configVars, mergeVars, dedupVars, fileVars, storeOp, memPool,
                   stored, toWrite, tempFile, opsDone, readerVars, loginVars>>

\* storage.ts:322  fs.writeFile opens the path for writing, which creates
\* the file or truncates the one that is there
CreateOpen(p) ==
    /\ storePc[p] = "create"
    /\ disk' = [kind |-> "invalid", data |-> EmptyStorage,
                openBy |-> disk.openBy \cup {p}]
    /\ storePc' = [storePc EXCEPT ![p] = "createWrite"]
    /\ UNCHANGED <<cfgVars, now, poolVars, trackerVars, ctxVars, histVars,
                   poolOps, configVars, mergeVars, dedupVars, lockHolder, storeOp,
                   memPool, stored, toWrite, tempFile, opsDone, readerVars, loginVars>>

\* storage.ts:322-326  fs.writeFile writes the empty pool to the file it
\* opened, which is the store file unless a rename replaced it meanwhile
CreateWrite(p) ==
    /\ storePc[p] = "createWrite"
    /\ disk' = IF p \in disk.openBy
               THEN [kind |-> "json", data |-> EmptyStorage,
                     openBy |-> disk.openBy \ {p}]
               ELSE disk
    /\ storePc' = [storePc EXCEPT ![p] = "lock"]
    /\ UNCHANGED <<cfgVars, now, poolVars, trackerVars, ctxVars, histVars,
                   poolOps, configVars, mergeVars, dedupVars, lockHolder, storeOp,
                   memPool, stored, toWrite, tempFile, opsDone, readerVars, loginVars>>

\* storage.ts:334  lockfile.lock resolves
AcquireLock(p) ==
    /\ storePc[p] = "lock"
    /\ lockHolder = 0
    /\ fault[p] # "lock"
    /\ lockHolder' = p
    /\ storePc' = [storePc EXCEPT ![p] =
                      IF storeOp[p] = "save" THEN "load" ELSE "writeTemp"]
    /\ UNCHANGED <<cfgVars, now, poolVars, trackerVars, ctxVars, histVars,
                   poolOps, configVars, mergeVars, dedupVars, disk, storeOp, memPool,
                   stored, toWrite, tempFile, opsDone, readerVars, loginVars>>

\* storage.ts:511-512  loadAccountsUnsafe() resolves and the pools merge
LoadExisting(p) ==
    /\ storePc[p] = "load"
    /\ stored' = [stored EXCEPT ![p] = loadAccountsUnsafe(disk)]
    /\ toWrite' = [toWrite EXCEPT ![p] =
                      IF loadAccountsUnsafe(disk) # <<>>
                      THEN mergeAccountStorage(loadAccountsUnsafe(disk)[1],
                                               memPool[p])
                      ELSE memPool[p]]
    /\ storePc' = [storePc EXCEPT ![p] = "writeTemp"]
    /\ UNCHANGED <<cfgVars, now, poolVars, trackerVars, ctxVars, histVars,
                   poolOps, configVars, mergeVars, dedupVars, fileVars, storeOp, memPool,
                   tempFile, opsDone, readerVars, loginVars>>

\* storage.ts:518, 547  the temp file is written
WriteTemp(p) ==
    /\ storePc[p] = "writeTemp"
    /\ fault[p] # "write"
    /\ tempFile' = [tempFile EXCEPT ![p] = <<toWrite[p]>>]
    /\ storePc' = [storePc EXCEPT ![p] = "rename"]
    /\ UNCHANGED <<cfgVars, now, poolVars, trackerVars, ctxVars, histVars,
                   poolOps, configVars, mergeVars, dedupVars, fileVars, storeOp, memPool,
                   stored, toWrite, opsDone, readerVars, loginVars>>

\* storage.ts:519, 548  the temp file is renamed over the store file
Rename(p) ==
    /\ storePc[p] = "rename"
    /\ fault[p] # "rename"
    /\ disk' = FileOf(tempFile[p][1])
    /\ tempFile' = [tempFile EXCEPT ![p] = <<>>]
    /\ storePc' = [storePc EXCEPT ![p] = "release"]
    /\ UNCHANGED <<cfgVars, now, poolVars, trackerVars, ctxVars, histVars,
                   poolOps, configVars, mergeVars, dedupVars, lockHolder, storeOp,
                   memPool, stored, toWrite, opsDone, readerVars, loginVars>>

\* storage.ts:336-343  the lock is released and the operation returns
Release(p) ==
    /\ storePc[p] = "release"
    /\ lockHolder' = 0
    /\ storePc' = [storePc EXCEPT ![p] = "idle"]
    /\ opsDone' = [opsDone EXCEPT ![p] = @ + 1]
    /\ UNCHANGED <<cfgVars, now, poolVars, trackerVars, ctxVars, histVars,
                   poolOps, configVars, mergeVars, dedupVars, disk, storeOp, memPool,
                   stored, toWrite, tempFile, readerVars, loginVars>>

\* storage.ts:444-502  a reader loads the store, without the lock
ReadStore ==
    /\ observed' = disk
    /\ loaded' = loadAccountsOutcome(disk)
    /\ UNCHANGED <<fault, jitVars>>
    /\ UNCHANGED <<cfgVars, now, poolVars, trackerVars, ctxVars, histVars,
                   poolOps, configVars, mergeVars, dedupVars, fileVars, procVars,
                   loginVars>>

\* the steps of saveAccounts
SaveStep(p) ==
    \/ StartSave(p)
    \/ CheckAccess(p)
    \/ CreateOpen(p)
    \/ CreateWrite(p)
    \/ AcquireLock(p)
    \/ LoadExisting(p)
    \/ WriteTemp(p)
    \/ Rename(p)
    \/ Release(p)

NextSaves ==
    \/ \E p \in Procs : SaveStep(p)
    \/ ReadStore

\* processes that save, and a reader
SpecSaves == InitStore /\ [][NextSaves]_vars

NextStore ==
    \/ \E p \in Procs : SaveStep(p)
    \/ \E p \in Procs : StartPersist(p)
    \/ \E p \in Procs, refreshToken \in LoginTokens :
          PersistLoad(p, refreshToken)
    \/ ReadStore

\* processes that save or record a login, and a reader
SpecStore == InitStore /\ [][NextStore]_vars

\* ------------------------------------------------------ saves that fail
\* saveAccounts when the lock cannot be had, when the temp file cannot be
\* written, when the rename fails.

Faults == {"lock", "write", "rename"}

\* saveAccounts(memPool[p]) is called, and one of its steps is going to fail
StartSaveFaulty(p, f) ==
    /\ storePc[p] = "idle"
    /\ opsDone[p] < MaxStoreOps
    /\ storePc' = [storePc EXCEPT ![p] = "access"]
    /\ storeOp' = [storeOp EXCEPT ![p] = "save"]
    /\ fault' = [fault EXCEPT ![p] = f]
    /\ UNCHANGED <<cfgVars, now, poolVars, trackerVars, ctxVars, histVars,
                   poolOps, configVars, mergeVars, dedupVars, fileVars, memPool, stored,
                   toWrite, tempFile, opsDone, observed, loaded, jitVars,
                   loginVars>>

\* storage.ts:334, 295-303  lockfile.lock rejects: another process held the
\* lock through all the retries; release is still null, the error leaves
\* withFileLock
LockFails(p) ==
    /\ storePc[p] = "lock"
    /\ fault[p] = "lock"
    /\ lockHolder # 0
    /\ storePc' = [storePc EXCEPT ![p] = "idle"]
    /\ storeOp' = [storeOp EXCEPT ![p] = "threw"]
    /\ fault' = [fault EXCEPT ![p] = "none"]
    /\ opsDone' = [opsDone EXCEPT ![p] = @ + 1]
    /\ UNCHANGED <<cfgVars, now, poolVars, trackerVars, ctxVars, histVars,
                   poolOps, configVars, mergeVars, dedupVars, fileVars, memPool, stored,
                   toWrite, tempFile, observed, loaded, jitVars, loginVars>>

\* storage.ts:518, 520-527  fs.writeFile of the temp file rejects; the catch
\* unlinks what was written of it and throws the error again
WriteTempFails(p) ==
    /\ storePc[p] = "writeTemp"
    /\ fault[p] = "write"
    /\ tempFile' = [tempFile EXCEPT ![p] = <<>>]
    /\ storePc' = [storePc EXCEPT ![p] = "release"]
    /\ storeOp' = [storeOp EXCEPT ![p] = "threw"]
    /\ fault' = [fault EXCEPT ![p] = "none"]
    /\ UNCHANGED <<cfgVars, now, poolVars, trackerVars, ctxVars, histVars,
                   poolOps, configVars, mergeVars, dedupVars, fileVars, memPool, stored,
                   toWrite, opsDone, observed, loaded, jitVars, loginVars>>

\* storage.ts:519, 520-527  fs.rename rejects; the catch unlinks the temp
\* file and throws the error again
RenameFails(p) ==
    /\ storePc[p] = "rename"
    /\ fault[p] = "rename"
    /\ tempFile' = [tempFile EXCEPT ![p] = <<>>]
    /\ storePc' = [storePc EXCEPT ![p] = "release"]
    /\ storeOp' = [storeOp EXCEPT ![p] = "threw"]
    /\ fault' = [fault EXCEPT ![p] = "none"]
    /\ UNCHANGED <<cfgVars, now, poolVars, trackerVars, ctxVars, histVars,
                   poolOps, configVars, mergeVars, dedupVars, fileVars, memPool, stored,
                   toWrite, opsDone, observed, loaded, jitVars, loginVars>>

NextSaveFails ==
    \/ \E p \in Procs : SaveStep(p)
    \/ \E p \in Procs, f \in Faults : StartSaveFaulty(p, f)
    \/ \E p \in Procs : LockFails(p)
    \/ \E p \in Procs : WriteTempFails(p)
    \/ \E p \in Procs : RenameFails(p)

\* processes whose saves succeed or fail
SpecSaveFails == InitStore /\ [][NextSaveFails]_vars

\* ------------------------------------------------- removing an account

\* the arguments of removeAccountFromPool: indices in and out of range
RemoveIndices == -1 .. 3

\* plugin.ts:490-493  the call removes something
RemoveInRange(accounts, removeIndex) ==
    /\ accounts # <<>>
    /\ removeIndex >= 0
    /\ removeIndex < Len(accounts)

\* plugin.ts:495  accounts.filter((_, idx) => idx !== removeIndex)
RemoveAt(accounts, removeIndex) ==
    [i \in 1 .. Len(accounts) - 1 |->
        IF i <= removeIndex THEN accounts[i] ELSE accounts[i + 1]]

\* faulty variant: the active index is not moved with its account
NextActiveIndex_NoShift(previousActiveIndex, removeIndex, length) ==
    Max(0, Min(previousActiveIndex, length - 1))

\* plugin.ts:507-511
NextActiveIndex(previousActiveIndex, removeIndex, length) ==
    Max(0, Min(IF removeIndex < previousActiveIndex
               THEN Max(0, previousActiveIndex - 1)
               ELSE previousActiveIndex,
               length - 1))

\* plugin.ts:513-520
RemovePayload(storedPool, removeIndex) ==
    LET nextAccounts == RemoveAt(storedPool.accounts, removeIndex)
        nextActiveIndex == NextActiveIndex(storedPool.activeIndex, removeIndex,
                                           Len(nextAccounts))
    IN  [version |-> 1,
         accounts |-> nextAccounts,
         activeIndex |-> nextActiveIndex,
         activeIndexByFamily |-> [kimi |-> nextActiveIndex]]

\* removeAccountFromPool(removeIndex) is called
StartRemove(p) ==
    /\ storePc[p] = "idle"
    /\ opsDone[p] < MaxStoreOps
    /\ storePc' = [storePc EXCEPT ![p] = "removeLoad"]
    /\ storeOp' = [storeOp EXCEPT ![p] = "replace"]
    /\ UNCHANGED <<cfgVars, now, poolVars, trackerVars, ctxVars, histVars,
                   poolOps, configVars, mergeVars, dedupVars, fileVars, memPool, stored,
                   toWrite, tempFile, opsDone, readerVars, loginVars>>

\* plugin.ts:489-520  loadAccounts() resolves; the call returns false, or
\* goes on to clear the store or to write the pool without the account
RemoveLoad(p, removeIndex) ==
    /\ storePc[p] = "removeLoad"
    /\ LET pool == loadAccounts(disk)
           accounts == IF pool = <<>> THEN <<>> ELSE pool[1].accounts
           inRange == RemoveInRange(accounts, removeIndex)
       IN  /\ stored' = [stored EXCEPT ![p] = pool]
           /\ removal' = [index |-> removeIndex,
                          before |-> disk,
                          account |-> IF inRange
                                      THEN <<accounts[removeIndex + 1]>>
                                      ELSE <<>>,
                          returned |-> inRange]
           /\ IF ~inRange
              THEN /\ storePc' = [storePc EXCEPT ![p] = "idle"]
                   /\ opsDone' = [opsDone EXCEPT ![p] = @ + 1]
                   /\ UNCHANGED toWrite
              ELSE IF Len(accounts) = 1
              THEN /\ storePc' = [storePc EXCEPT ![p] = "clear"]
                   /\ UNCHANGED <<toWrite, opsDone>>
              ELSE /\ storePc' = [storePc EXCEPT ![p] = "access"]
                   /\ toWrite' = [toWrite EXCEPT ![p] =
                                     RemovePayload(pool[1], removeIndex)]
                   /\ UNCHANGED opsDone
    /\ UNCHANGED <<cfgVars, now, poolVars, trackerVars, ctxVars, histVars,
                   poolOps, configVars, mergeVars, dedupVars, fileVars, storeOp, memPool,
                   tempFile, readerVars, loginPc, results, startFresh,
                   credential>>

\* storage.ts:585-595  clearAccounts unlinks the store file, without the
\* lock, and the call returns true
ClearStore(p) ==
    /\ storePc[p] = "clear"
    /\ disk' = FileMissing
    /\ storePc' = [storePc EXCEPT ![p] = "idle"]
    /\ opsDone' = [opsDone EXCEPT ![p] = @ + 1]
    /\ UNCHANGED <<cfgVars, now, poolVars, trackerVars, ctxVars, histVars,
                   poolOps, configVars, mergeVars, dedupVars, lockHolder, storeOp,
                   memPool, stored, toWrite, tempFile, readerVars, loginVars>>

\* the steps of removeAccountFromPool
RemoveStep(p) ==
    \/ StartRemove(p)
    \/ \E removeIndex \in RemoveIndices : RemoveLoad(p, removeIndex)
    \/ ClearStore(p)
    \/ CheckAccess(p)
    \/ AcquireLock(p)
    \/ WriteTemp(p)
    \/ Rename(p)
    \/ Release(p)

\* a pool of the three accounts with the given active index
PoolAt(accounts, index) ==
    [version |-> 1, accounts |-> accounts, activeIndex |-> index,
     activeIndexByFamily |-> [kimi |-> index]]

RemoveFiles ==
    {FileMissing, FileInvalid, FileOf(PoolOf(<<>>))}
        \cup {FileOf(PoolAt(accounts, index)) :
                 accounts \in {<<AcctA>>, <<AcctB, AcctA>>,
                               <<AcctA, AcctB, AcctN>>, <<AcctN, AcctA, AcctB>>},
                 index \in 0 .. 2}

InitRemove ==
    /\ strategy = "sticky"
    /\ canRetry = TRUE
    /\ maxWaitMs = 0
    /\ DefaultTrackers
    /\ NoMerge
    /\ NoDedup
    /\ FreshPool
    /\ FreshContext
    /\ hasAccess = [a \in Accounts |-> TRUE]
    /\ expires = [a \in Accounts |-> RefreshedLifetimeMs]
    /\ tokens = [a \in Accounts |-> tokenConfig.initialTokens * TokenScale]
    /\ rateLimitReset = [a \in Accounts |-> 0]
    /\ IdleProcs
    /\ NoConfig
    /\ memPool = [p \in Procs |-> EmptyStorage]
    /\ disk \in RemoveFiles

\* the process that removes
Remover == CHOOSE p \in Procs : \A q \in Procs : p <= q

NextRemove == RemoveStep(Remover)

\* one process that removes accounts from the store
SpecRemove == InitRemove /\ [][NextRemove]_vars

\* a second process that is running holds the pool it loaded earlier
Saver == CHOOSE p \in Procs : p # Remover

InitRemoveSave ==
    /\ strategy = "sticky"
    /\ canRetry = TRUE
    /\ maxWaitMs = 0
    /\ DefaultTrackers
    /\ NoMerge
    /\ NoDedup
    /\ FreshPool
    /\ FreshContext
    /\ hasAccess = [a \in Accounts |-> TRUE]
    /\ expires = [a \in Accounts |-> RefreshedLifetimeMs]
    /\ tokens = [a \in Accounts |-> tokenConfig.initialTokens * TokenScale]
    /\ rateLimitReset = [a \in Accounts |-> 0]
    /\ IdleProcs
    /\ NoConfig
    /\ \E accounts \in {<<AcctA>>, <<AcctA, AcctB>>, <<AcctB, AcctN, AcctA>>} :
          /\ disk = FileOf(PoolOf(accounts))
          /\ memPool = [p \in Procs |-> PoolOf(accounts)]

NextRemoveSave ==
    \/ RemoveStep(Remover)
    \/ SaveStep(Saver)
    \/ ReadStore

\* a process that removes accounts while another one saves its pool
SpecRemoveSave == InitRemoveSave /\ [][NextRemoveSave]_vars

\* ------------------------------------------------- loading a store file
\* loadAccounts reads whatever the store file holds: the file may be
\* missing, unreadable, not JSON, or a JSON document of any shape.

\* a null in the accounts array
NullEntry == [isNull |-> TRUE]

\* an object of the accounts array that has no refresh token
NoTokenEntry == [email |-> "u2", addedAt |-> 1, lastUsed |-> 1]

FileEntries == {AcctA, AcctARotated, AcctN, NullEntry, NoTokenEntry}

EntryLists == UNION {[1..n -> FileEntries] : n \in 0..MaxFileEntries}

\* the JSON documents a store file may hold; a field that is missing or of
\* the wrong type is a field the document does not have
Documents ==
    {Spread(Spread(Spread(v, a), i), f) :
        v \in {<<>>, [version |-> 1], [version |-> 2]},
        a \in {<<>>} \cup {[accounts |-> l] : l \in EntryLists},
        i \in {<<>>} \cup {[activeIndex |-> k] : k \in {-1, 0, 1, 5}},
        f \in {<<>>} \cup
              {[activeIndexByFamily |-> [kimi |-> k]] : k \in {0, 1, 5}}}

FileUnreadable == [kind |-> "unreadable", data |-> EmptyStorage, openBy |-> {}]

FileNull == [kind |-> "null", data |-> EmptyStorage, openBy |-> {}]

LoadFiles ==
    {FileMissing, FileUnreadable, FileInvalid, FileNull}
        \cup {FileOf(d) : d \in Documents}

InitLoad ==
    /\ strategy = "sticky"
    /\ canRetry = TRUE
    /\ maxWaitMs = 0
    /\ DefaultTrackers
    /\ NoMerge
    /\ NoDedup
    /\ FreshPool
    /\ FreshContext
    /\ hasAccess = [a \in Accounts |-> TRUE]
    /\ expires = [a \in Accounts |-> RefreshedLifetimeMs]
    /\ tokens = [a \in Accounts |-> tokenConfig.initialTokens * TokenScale]
    /\ rateLimitReset = [a \in Accounts |-> 0]
    /\ IdleProcs
    /\ NoConfig
    /\ memPool = [p \in Procs |-> EmptyStorage]
    /\ disk \in LoadFiles

NextLoad == ReadStore

SpecLoad == InitLoad /\ [][NextLoad]_vars

\* ------------------------------------------------------ login sessions
\* `opencode auth login` runs the CLI flow of authorize, one session after
\* the other; the TUI records one credential per login.

\* plugin.ts:49
MAX_OAUTH_ACCOUNTS == 10

\* plugin.ts:379-485  persistAccountPool([{refresh}], replaceAll), run with
\* nobody else at the store: the file holds the payload afterwards
PersistedFile(file, refreshToken, replaceAll) ==
    FileOf(PersistPayload(IF replaceAll THEN <<>> ELSE loadAccounts(file),
                          refreshToken, replaceAll))

\* the credential a device authorization returns: the one of the first user
\* the pool does not hold, or another one of the first user
NextTokens(file) ==
    LET n == IF loadAccounts(file) = <<>> THEN 0
             ELSE Len(loadAccounts(file)[1].accounts)
    IN  {"s0"} \cup (IF n < Len(SessionTokens) THEN {SessionTokens[n + 1]}
                     ELSE {})

InitLogin ==
    /\ strategy = "sticky"
    /\ canRetry = TRUE
    /\ maxWaitMs = 0
    /\ DefaultTrackers
    /\ NoMerge
    /\ NoDedup
    /\ FreshPool
    /\ FreshContext
    /\ hasAccess = [a \in Accounts |-> TRUE]
    /\ expires = [a \in Accounts |-> RefreshedLifetimeMs]
    /\ tokens = [a \in Accounts |-> tokenConfig.initialTokens * TokenScale]
    /\ rateLimitReset = [a \in Accounts |-> 0]
    /\ IdleProcs
    /\ NoConfig
    /\ memPool = [p \in Procs |-> EmptyStorage]
    /\ disk = FileMissing

\* plugin.ts:1120-1176  a CLI session starts: with accounts in the store the
\* menu is shown, and the user adds accounts or starts fresh, which clears
\* the store (a cancelled menu changes nothing)
LoginStart(mode) ==
    /\ loginPc = "idle"
    /\ LET existingStorage == loadAccounts(disk)
           hasAccounts == /\ existingStorage # <<>>
                          /\ Len(existingStorage[1].accounts) > 0
       IN  /\ mode = "fresh" => hasAccounts
           /\ startFresh' = (mode = "fresh")
           /\ disk' = IF mode = "fresh" THEN FileMissing ELSE disk
    /\ results' = 0
    /\ loginPc' = "authorize"
    /\ UNCHANGED <<cfgVars, now, poolVars, trackerVars, ctxVars, histVars,
                   poolOps, configVars, mergeVars, dedupVars, lockHolder, procVars,
                   readerVars, credential, removal>>

\* plugin.ts:1178-1236  one round of the loop: the device authorization
\* succeeds, the credential is recorded, and the user adds another account
\* or not
LoginSuccess(refreshToken, addAnother) ==
    /\ loginPc = "authorize"
    /\ results < MAX_OAUTH_ACCOUNTS
    /\ opsDone[1] < MaxLogins
    /\ results' = results + 1
    /\ credential' = refreshToken
    /\ disk' = PersistedFile(disk, refreshToken, results' = 1 /\ startFresh)
    /\ opsDone' = [opsDone EXCEPT ![1] = @ + 1]
    /\ loginPc' = IF addAnother /\ results' < MAX_OAUTH_ACCOUNTS
                  THEN "authorize" ELSE "idle"
    /\ UNCHANGED <<cfgVars, now, poolVars, trackerVars, ctxVars, histVars,
                   poolOps, configVars, mergeVars, dedupVars, lockHolder, storePc,
                   storeOp, memPool, stored, toWrite, tempFile, readerVars,
                   startFresh, removal>>

\* plugin.ts:1196-1206  the device authorization fails: the session ends
LoginFailed ==
    /\ loginPc = "authorize"
    /\ results < MAX_OAUTH_ACCOUNTS
    /\ loginPc' = "idle"
    /\ UNCHANGED <<cfgVars, now, poolVars, trackerVars, ctxVars, histVars,
                   poolOps, configVars, mergeVars, dedupVars, fileVars, procVars,
                   readerVars, results, startFresh, credential, removal>>

\* plugin.ts:1264-1285  a TUI login records its credential
TuiLogin(refreshToken) ==
    /\ loginPc = "idle"
    /\ opsDone[1] < MaxLogins
    /\ credential' = refreshToken
    /\ disk' = PersistedFile(disk, refreshToken, FALSE)
    /\ opsDone' = [opsDone EXCEPT ![1] = @ + 1]
    /\ UNCHANGED <<cfgVars, now, poolVars, trackerVars, ctxVars, histVars,
                   poolOps, configVars, mergeVars, dedupVars, lockHolder, storePc,
                   storeOp, memPool, stored, toWrite, tempFile, readerVars,
                   loginPc, results, startFresh, removal>>

NextLogin ==
    \/ \E mode \in {"add", "fresh"} : LoginStart(mode)
    \/ \E refreshToken \in NextTokens(disk), addAnother \in BOOLEAN :
          LoginSuccess(refreshToken, addAnother)
    \/ LoginFailed
    \/ \E refreshToken \in NextTokens(disk) : TuiLogin(refreshToken)
    \/ ReadStore

SpecLogin == InitLogin /\ [][NextLogin]_vars

\* ------------------------------------------------ recording a credential
\* persistAccountPool on its own: logins that return the token an account
\* holds, a rotated token of a known user, or the token of a new user, with
\* or without a user id in it.

PersistTokens == {"rt1", "rt1r", "rt3", "rt4", "rt5"}

InitPersist ==
    /\ strategy = "sticky"
    /\ canRetry = TRUE
    /\ maxWaitMs = 0
    /\ DefaultTrackers
    /\ NoMerge
    /\ NoDedup
    /\ FreshPool
    /\ FreshContext
    /\ hasAccess = [a \in Accounts |-> TRUE]
    /\ expires = [a \in Accounts |-> RefreshedLifetimeMs]
    /\ tokens = [a \in Accounts |-> tokenConfig.initialTokens * TokenScale]
    /\ rateLimitReset = [a \in Accounts |-> 0]
    /\ IdleProcs
    /\ NoConfig
    /\ memPool = [p \in Procs |-> EmptyStorage]
    /\ disk \in {FileMissing, FileOf(PoolOf(<<>>)), FileOf(PoolOf(<<AcctA>>)),
                 FileOf(PoolOf(<<AcctN>>)), FileOf(PoolOf(<<AcctA, AcctN>>)),
                 FileOf(PoolOf(<<AcctB, AcctN, AcctA>>))}

NextPersist == \E refreshToken \in PersistTokens : TuiLogin(refreshToken)

SpecPersist == InitPersist /\ [][NextPersist]_vars

\* -------------------------------------------------- the opencode config
\* updateOpencodeConfig reads the config file, strips comments and trailing
\* commas from its text, parses it, completes it and writes it back.  A
\* string of the file is the sequence of its pieces: a piece is a comma, a
\* space, a closing bracket, or a run of other characters.  Of the config,
\* theme stands for the top-level keys the update does not manage,
\* otherProvider for the other provider sections, and options for the
\* moonshotai settings besides models; <<>> is a key the file does not have.

SCHEMA_URL == <<"https://opencode.ai/config.json">>

PLUGIN_NAME == <<"opencode-kimicode-auth", "@latest">>

\* models.ts:33-48  the keys of OPENCODE_MODEL_DEFINITIONS
OPENCODE_MODEL_DEFINITIONS ==
    <<[key |-> "kimicode-kimi-k2.5", def |-> "plugin"],
      [key |-> "kimicode-kimi-k2.5-thinking", def |-> "plugin"]>>

\* \s*[}\]] matches at the start of s
RECURSIVE FollowedByCloser(_)
FollowedByCloser(s) ==
    IF s = <<>> THEN FALSE
    ELSE IF Head(s) = " " THEN FollowedByCloser(Tail(s))
    ELSE Head(s) \in {"]", "}"}

\* part_003:67  .replace(/,(\s*[}\]])/g, "$1") on the text of one string
\* of the file: the regular expression does not know where strings are
RECURSIVE StripTrailingCommas(_)
StripTrailingCommas(s) ==
    IF s = <<>> THEN <<>>
    ELSE IF Head(s) = "," /\ FollowedByCloser(Tail(s))
    THEN StripTrailingCommas(Tail(s))
    ELSE <<Head(s)>> \o StripTrailingCommas(Tail(s))

StripEach(strings) ==
    [k \in DOMAIN strings |-> StripTrailingCommas(strings[k])]

\* part_003:60-68, 130  JSON.parse(stripJsonCommentsAndTrailingCommas(
\* content)): comments and trailing commas of the text are gone, and so are
\* the commas before a closing bracket inside its strings
ParseConfig(text) ==
    [schema |-> StripTrailingCommas(text.schema),
     pluginIsArray |-> text.pluginIsArray,
     plugin |-> StripEach(text.plugin),
     theme |-> StripTrailingCommas(text.theme),
     otherProvider |-> StripTrailingCommas(text.otherProvider),
     options |-> StripTrailingCommas(text.options),
     models |-> text.models]

\* part_003:204  JSON.stringify(config, null, 2): no piece needs an escape,
\* and the text has no comment and no trailing comma
StringifyConfig(config) ==
    [schema |-> config.schema,
     pluginIsArray |-> config.pluginIsArray,
     plugin |-> config.plugin,
     theme |-> config.theme,
     otherProvider |-> config.otherProvider,
     options |-> config.options,
     models |-> config.models,
     jsonc |-> FALSE]

\* part_003:132-137  the default config
DefaultConfig ==
    [schema |-> SCHEMA_URL, pluginIsArray |-> TRUE, plugin |-> <<>>,
     theme |-> <<>>, otherProvider |-> <<>>, options |-> <<>>,
     models |-> <<>>]

\* p.includes("opencode-kimicode-auth")
IncludesPluginName(p) ==
    \E k \in DOMAIN p : p[k] = "opencode-kimicode-auth"

\* part_003:146-156  the plugin array after the update
UpdatedPlugins(config) ==
    LET plugin == IF config.pluginIsArray THEN config.plugin ELSE <<>>
        hasPlugin == \E k \in DOMAIN plugin : IncludesPluginName(plugin[k])
    IN  IF hasPlugin THEN plugin ELSE Append(plugin, PLUGIN_NAME)

\* part_003:49-59, 175-190  the models without the legacy definitions
IsLegacyModel(m) ==
    /\ m.key \in {"kimi-for-coding", "kimi-k2.5", "kimi-k2-thinking"}
    /\ m.def = "legacy"

CleanedModels(models) == SelectSeq(models, LAMBDA m : ~IsLegacyModel(m))

ModelIndex(models, key) ==
    LET at == {k \in DOMAIN models : models[k].key = key}
    IN  IF at = {} THEN 0 ELSE CHOOSE k \in at : TRUE

\* {...models, [m.key]: m}
SetModel(models, m) ==
    IF ModelIndex(models, m.key) # 0
    THEN [models EXCEPT ![ModelIndex(models, m.key)] = m]
    ELSE Append(models, m)

\* part_003:192-195  { ...cleanedModels, ...OPENCODE_MODEL_DEFINITIONS }
RECURSIVE SpreadModels(_, _)
SpreadModels(models, defs) ==
    IF defs = <<>> THEN models
    ELSE SpreadModels(SetModel(models, Head(defs)), Tail(defs))

\* part_003:139-195  the config that is written
UpdatedConfig(config) ==
    [schema |-> IF config.schema = <<>> THEN SCHEMA_URL ELSE config.schema,
     pluginIsArray |-> TRUE,
     plugin |-> UpdatedPlugins(config),
     theme |-> config.theme,
     otherProvider |-> config.otherProvider,
     options |-> config.options,
     models |-> SpreadModels(CleanedModels(config.models),
                             OPENCODE_MODEL_DEFINITIONS)]

\* the strings a config file may hold
ThemeTexts ==
    {<<>>, <<"dark">>, <<"a", ",", "]">>, <<"a", ",", ",", "]">>,
     <<"a", ",", " ", "}">>}

PluginTexts ==
    {<<"other-plugin">>, PLUGIN_NAME, <<"opencode-kimicode-auth", "@beta">>,
     <<"my", ",", ",", "]">>}

ModelLists ==
    {<<>>,
     <<[key |-> "kimi-k2.5", def |-> "legacy"]>>,
     <<[key |-> "kimi-k2.5", def |-> "user"],
       [key |-> "kimicode-kimi-k2.5-thinking", def |-> "user"]>>,
     <<[key |-> "kimicode-kimi-k2.5-thinking", def |-> "plugin"],
       [key |-> "kimi-for-coding", def |-> "legacy"],
       [key |-> "kimicode-kimi-k2.5", def |-> "plugin"]>>}

ConfigTexts ==
    [schema : {<<>>, SCHEMA_URL, <<"other-schema">>},
     pluginIsArray : BOOLEAN,
     plugin : UNION {[1..n -> PluginTexts] : n \in 0..MaxPlugins},
     theme : ThemeTexts,
     otherProvider : {<<>>, <<"openai">>},
     options : {<<>>, <<"moonshot-options">>},
     models : ModelLists,
     jsonc : BOOLEAN]

ConfigFiles ==
    {[kind |-> "missing"], [kind |-> "invalid"]}
        \cup {[kind |-> "json", text |-> t] :
                 t \in {c \in ConfigTexts : c.pluginIsArray \/ c.plugin = <<>>}}

InitConfig ==
    /\ strategy = "sticky"
    /\ canRetry = TRUE
    /\ maxWaitMs = 0
    /\ DefaultTrackers
    /\ NoMerge
    /\ NoDedup
    /\ NoDisk
    /\ FreshPool
    /\ FreshContext
    /\ hasAccess = [a \in Accounts |-> TRUE]
    /\ expires = [a \in Accounts |-> RefreshedLifetimeMs]
    /\ tokens = [a \in Accounts |-> tokenConfig.initialTokens * TokenScale]
    /\ rateLimitReset = [a \in Accounts |-> 0]
    /\ configFile \in ConfigFiles
    /\ configRuns = 0
    /\ configOk = TRUE

\* part_003:120-217  updateOpencodeConfig()
updateOpencodeConfig ==
    /\ configRuns < MaxConfigRuns
    /\ configRuns' = configRuns + 1
    /\ IF configFile.kind = "invalid"
       THEN /\ configOk' = FALSE
            /\ configFile' = configFile
       ELSE /\ configOk' = TRUE
            /\ configFile' =
                  [kind |-> "json",
                   text |-> StringifyConfig(UpdatedConfig(
                               IF configFile.kind = "missing"
                               THEN DefaultConfig
                               ELSE ParseConfig(configFile.text)))]
    /\ UNCHANGED <<cfgVars, now, poolVars, trackerVars, ctxVars, histVars,
                   poolOps, mergeVars, dedupVars, diskVars>>

NextConfig == updateOpencodeConfig

SpecConfig == InitConfig /\ [][NextConfig]_vars

\* ------------------------------------------------ the auth loader's repair
\* Dispatch calls share the account manager: while this call has a request
\* in flight on its account, another call may find the same account's token
\* expired.  The loader runs when the provider is loaded again.

\* plugin.ts:648
NeedsRepair(a) == ~enabled[a] /\ cooldownReason[a] = "auth-failure"

\* plugin.ts:644-655  the self-heal of the loader; clearAccountCooldown
\* leaves no cooldown and no reason
Loader ==
    /\ poolOps < MaxPoolOps + MaxLoaderRuns
    /\ poolOps' = poolOps + 1
    /\ enabled' = [a \in Accounts |-> enabled[a] \/ NeedsRepair(a)]
    /\ cooldownUntil' =
          [a \in Accounts |-> IF NeedsRepair(a) THEN 0 ELSE cooldownUntil[a]]
    /\ cooldownReason' =
          [a \in Accounts |->
              IF NeedsRepair(a) THEN "none" ELSE cooldownReason[a]]
    /\ terminalFailed' = {a \in terminalFailed : ~NeedsRepair(a)}
    /\ UNCHANGED <<cfgVars, storeVars, now, rateLimitReset, lastUsed, credVars,
                   selVars, saveRequests, trackerVars, ctxVars, requestsSent,
                   waits, refreshes, noteVars, delayVars, consumes, refunds,
                   abortedAt, authRefreshed, levelBefore>>

\* plugin.ts:849-860  another dispatch call selected account a, and its
\* refresh failed with a terminal error
RefreshFailsTerminally(a) ==
    /\ poolOps < MaxPoolOps
    /\ poolOps' = poolOps + 1
    /\ Eligible(a)
    /\ DisableAccount(a)
    /\ UNCHANGED <<cfgVars, storeVars, now, rateLimitReset, lastUsed, credVars,
                   selVars, trackerVars, ctxVars, requestsSent, waits,
                   refreshes, noteVars, delayVars, consumes, refunds,
                   abortedAt, authRefreshed, levelBefore>>

\* plugin.ts:1089-1106  the request this call has in flight on its account
\* is rejected
RequestFails ==
    /\ poolOps < MaxPoolOps
    /\ poolOps' = poolOps + 1
    /\ account # None
    /\ CatchHandler(account)
    /\ UNCHANGED <<cfgVars, storeVars, now, enabled, rateLimitReset, lastUsed,
                   credVars, selVars, tokensRefill, result, account,
                   counterVars, aborted, awaitedVars, requestsSent, waits,
                   refreshes, noteVars, delayVars, consumes, terminalFailed,
                   abortedAt, authRefreshed, levelBefore>>

NextLoader ==
    \/ SelectCall
    \/ \E a \in Accounts : RefreshFailsTerminally(a)
    \/ RequestFails
    \/ \E a \in Accounts : DisableOnly(a)
    \/ Elapse
    \/ Loader

SpecLoader == InitSelect /\ [][NextLoader]_vars

\* ------------------------------------------------ the loop as a cycle
\* The loop of a dispatch call against an upstream that answers 200 or a
\* capacity error, on a pool of which any accounts are disabled. No account
\* is cooling down or rate-limited and the access tokens are fresh, so no
\* step depends on the clock; the clock and the counts of requests and
\* waits are left out, and a call that goes round the loop comes back to a
\* state it was in.

LiveResponses == {Resp(200, "none", FALSE, "none", 0)} \cup CapacityResponses

\* plugin.ts:815-830  no account: the call sleeps and goes round
SteadySelectNoneWait ==
    /\ pc = "select"
    /\ ~aborted
    /\ selectForFamily = None
    /\ ~ExceedsWaitBudget(minWaitMsForFamily)
    /\ pc' = "waitSleep"
    /\ sleepMs' = Max(MinWaitSleepMs, minWaitMsForFamily)
    /\ UNCHANGED <<cfgVars, offVars, now, poolVars, trackerVars, result, account,
                   counterVars, tokenConsumed, aborted, awaitedVars, histVars>>

\* plugin.ts:807-930  an account with a fresh access token: the request
\* goes out
SteadySend ==
    /\ pc = "select"
    /\ ~aborted
    /\ selectForFamily # None
    /\ ~accessTokenExpired(selectForFamily)
    /\ Selected(selectForFamily)
    /\ pc' = "inflight"
    /\ UNCHANGED <<cfgVars, offVars, now, enabled, cooldownVars, rateLimitReset,
                   lastUsed, credVars, saveRequests, trackerVars, result,
                   tokenConsumed, aborted, sleepMs, awaitedVars, requestsSent,
                   waits, refreshes, noteVars, consumes, refunds,
                   terminalFailed, abortedAt, authRefreshed, levelBefore>>

\* plugin.ts:250-263  the sleep resolves and the loop goes round
SteadyWake ==
    /\ pc \in {"waitSleep", "backoffSleep"}
    /\ ~aborted
    /\ pc' = "select"
    /\ UNCHANGED <<cfgVars, offVars, now, poolVars, trackerVars, result, account,
                   counterVars, tokenConsumed, aborted, sleepMs, awaitedVars,
                   histVars>>

InitLive ==
    /\ strategy \in {"sticky", "round-robin"}
    /\ canRetry \in BOOLEAN
    /\ maxWaitMs \in MaxWaitChoices
    /\ DefaultTrackers
    /\ NoStore
    /\ FreshContext
    /\ now = 0
    /\ enabled \in [Accounts -> BOOLEAN]
    /\ cooldownUntil = [a \in Accounts |-> 0]
    /\ cooldownReason = [a \in Accounts |-> "none"]
    /\ rateLimitReset = [a \in Accounts |-> 0]
    /\ lastUsed = [a \in Accounts |-> 0]
    /\ hasAccess = [a \in Accounts |-> TRUE]
    /\ expires = [a \in Accounts |-> RefreshedLifetimeMs]
    /\ activeIndex = 0
    /\ rrCursor = 0
    /\ saveRequests = 0
    /\ healthScore = [a \in Accounts |-> healthConfig.initial * HourMs]
    /\ healthUpdated = [a \in Accounts |-> 0]
    /\ tokens = [a \in Accounts |-> tokenConfig.initialTokens * TokenScale]
    /\ tokensRefill = [a \in Accounts |-> 0]

NextLive ==
    \/ SteadySelectNoneWait
    \/ SteadySend
    \/ UpstreamResponds(LiveResponses)
    \/ HandleSuccess
    \/ HandleCapacity
    \/ HandleCapacityNoRetry
    \/ SteadyWake

\* every request is answered and every sleep ends: a step that can be
\* taken is taken
SpecLive == InitLive /\ [][NextLive]_vars /\ WF_vars(NextLive)

\* ------------------------------------------- dispatch calls side by side
\* Two dispatch calls of one process reach the token step of the loop
\* (plugin.ts:838-866) on the account the selection hands them. The token
\* endpoint accepts the refresh token it issued last for an account and may
\* answer with a new one, which ends the old one.

\* what the new actions leave alone of the store
jitOffVars ==
    <<poolOps, mergeVars, dedupVars, fileVars, procVars, configVars, observed,
      loaded, fault, loginVars>>

\* plugin.ts:802-843  the call takes the account of the selection; its
\* access token is expired and refreshAccessToken posts the refresh token
\* the account holds (token.ts:75-89), or it is not and the request goes out
CallResolves(c) ==
    /\ inFlight[c].pc = "idle"
    /\ inFlight[c].rounds < MaxCallRounds
    /\ selectForFamily # None
    /\ LET a == selectForFamily
       IN  /\ activeIndex' = a
           /\ inFlight' = [inFlight EXCEPT ![c] =
                  [pc |-> IF accessTokenExpired(a) THEN "refreshing"
                          ELSE "request",
                   account |-> a,
                   refresh |-> authRefresh[a],
                   rounds |-> @.rounds + 1]]
    /\ UNCHANGED <<cfgVars, jitOffVars, now, enabled, cooldownVars, rateLimitReset,
                   lastUsed, credVars, rrCursor, saveRequests, trackerVars,
                   ctxVars, histVars, authRefresh, granted>>

\* token.ts:119-133, plugin.ts:844-848  the endpoint accepts the token and
\* answers, with a new refresh token if it rotates them
RefreshGranted(c, rotated) ==
    /\ inFlight[c].pc = "refreshing"
    /\ inFlight[c].refresh = granted[inFlight[c].account]
    /\ LET a == inFlight[c].account
           issued == IF rotated THEN granted[a] + 1 ELSE granted[a]
       IN  /\ granted' = [granted EXCEPT ![a] = issued]
           /\ authRefresh' = [authRefresh EXCEPT ![a] = issued]
           /\ updateFromAuth(a)
    /\ requestSave
    /\ inFlight' = [inFlight EXCEPT ![c].pc = "request"]
    /\ UNCHANGED <<cfgVars, jitOffVars, now, enabled, cooldownVars, rateLimitReset,
                   lastUsed, selVars, trackerVars, ctxVars, histVars>>

\* token.ts:91-117, plugin.ts:849-865  the endpoint knows the token no more
\* (invalid_grant): the account is disabled and the loop goes on
RefreshRejected(c) ==
    /\ inFlight[c].pc = "refreshing"
    /\ inFlight[c].refresh # granted[inFlight[c].account]
    /\ DisableAccount(inFlight[c].account)
    /\ inFlight' = [inFlight EXCEPT ![c].pc = "idle"]
    /\ UNCHANGED <<cfgVars, jitOffVars, now, rateLimitReset, lastUsed, credVars,
                   selVars, trackerVars, ctxVars, requestsSent, waits,
                   refreshes, noteVars, delayVars, consumes, refunds,
                   abortedAt, authRefreshed, levelBefore, authRefresh,
                   granted>>

\* the request of the call is answered and the call returns
CallReturns(c) ==
    /\ inFlight[c].pc = "request"
    /\ inFlight' = [inFlight EXCEPT ![c].pc = "idle"]
    /\ UNCHANGED <<cfgVars, jitOffVars, now, poolVars, trackerVars, ctxVars,
                   histVars, authRefresh, granted>>

\* the access tokens of the accounts: fresh, or expired
InitCalls ==
    /\ strategy = "sticky"
    /\ canRetry = TRUE
    /\ maxWaitMs = 0
    /\ DefaultTrackers
    /\ NoStore
    /\ FreshContext
    /\ now = IdleLongMs
    /\ enabled = [a \in Accounts |-> TRUE]
    /\ cooldownUntil = [a \in Accounts |-> 0]
    /\ cooldownReason = [a \in Accounts |-> "none"]
    /\ rateLimitReset = [a \in Accounts |-> 0]
    /\ lastUsed = [a \in Accounts |-> 0]
    /\ hasAccess = [a \in Accounts |-> TRUE]
    /\ expires \in [Accounts -> {IdleLongMs, IdleLongMs + RefreshedLifetimeMs}]
    /\ activeIndex \in Accounts
    /\ rrCursor = 0
    /\ saveRequests = 0
    /\ healthScore = [a \in Accounts |-> healthConfig.initial * HourMs]
    /\ healthUpdated = [a \in Accounts |-> IdleLongMs]
    /\ tokens = [a \in Accounts |-> tokenConfig.initialTokens * TokenScale]
    /\ tokensRefill = [a \in Accounts |-> IdleLongMs]

NextCalls ==
    \/ \E c \in Calls : CallResolves(c)
    \/ \E c \in Calls, rotated \in BOOLEAN : RefreshGranted(c, rotated)
    \/ \E c \in Calls : RefreshRejected(c)
    \/ \E c \in Calls : CallReturns(c)

SpecCalls == InitCalls /\ [][NextCalls]_vars

\* ------------------------------------------------------------------ claims

\* C1: a 403 whose payload rejects the client identity makes the call throw
\* at once: no further request, no cooldown, no penalty, no other account.
\* Stated for calls with retries enabled, where the code has a branch for it.
C1_DeniedThrowsImmediately ==
    [][(pc = "classify" /\ canRetry /\ IsAccessDenied(response))
        => /\ pc' = "done"
           /\ result' = "denied"
           /\ UNCHANGED <<enabled, cooldownVars, healthVars, tokens,
                          requestsSent>>]_vars

\* the suspension points claim C2 lists: the sleeps and the upstream fetch
ListedAbortPoints ==
    {"waitSleep", "backoffSleep", "pauseSleep", "catchSleep", "inflight"}

\* C2: once the cancellation signal has fired during a sleep or while the
\* upstream request is in flight, the call changes no account state, and it
\* ends with the abort error.
C2_NoMutationAfterCancel ==
    /\ []((pc = "done" /\ abortedAt \in ListedAbortPoints)
            => result = "aborted")
    /\ [][(abortedAt \in ListedAbortPoints)
            => UNCHANGED <<enabled, cooldownVars, healthVars, tokens,
                           saveRequests>>]_vars

\* C3: with retries disabled (body not buffered) the call sends at most one
\* upstream request, whatever the outcome.
C3_SingleAttemptWhenUnbuffered == ~canRetry => requestsSent <= 1

\* C4: under hybrid, when the dispatcher has moved on from failed attempts
\* (back at selection, or ended without a 2xx) every consumed token has been
\* refunded.
C4_FailedAttemptsRefunded ==
    (strategy = "hybrid" /\ pc \in {"select", "done"} /\ result # "ok")
        => consumes = refunds

\* C5: when no account is selected, a budget > 0 that the minimum wait
\* exceeds makes the call throw all-accounts-exhausted in that iteration,
\* without sleeping or sending; otherwise it sleeps max(1000, minWait) and
\* selects again.
C5_ExhaustedOrWait ==
    [][(pc = "select" /\ ~aborted /\ selectForFamily = None)
        => IF maxWaitMs > 0 /\ minWaitMsForFamily > maxWaitMs
           THEN /\ pc' = "done"
                /\ result' = "exhausted"
                /\ now' = now
                /\ requestsSent' = requestsSent
           ELSE /\ pc' = "waitSleep"
                /\ sleepMs' = Max(1000, minWaitMsForFamily)
                /\ result' = "none"
                /\ requestsSent' = requestsSent]_vars

C5_Witness ==
    /\ pc = "done"
    /\ result = "exhausted"
    /\ maxWaitMs > 0
    /\ minWaitMsForFamily > maxWaitMs

\* C6: with retries enabled, the request that follows a capacity / server
\* error answer goes to the same account.
C6_CapacityRetriesSameAccount ==
    (pc = "inflight" /\ ~aborted /\ canRetry /\ prevOutcome = "capacity")
        => account = prevAccount

\* C7 (as claimed): consecutive capacity backoff delays on one account never
\* decrease.
C7_DelaysNonDecreasing == prevDelay > 0 => prevDelay <= lastDelay

\* C7 (amended): the delays do not decrease up to the first one computed at
\* the 8000 ms cap (the fourth); from then on each lies in 7200..8800 ms.
C7_DelaysNonDecreasingUntilCap ==
    /\ (prevDelay > 0 /\ capacityRetryCount <= 4) => prevDelay <= lastDelay
    /\ (prevDelay > 0 /\ capacityRetryCount > 4)
          => /\ 7200 <= prevDelay /\ prevDelay <= 8800
             /\ 7200 <= lastDelay /\ lastDelay <= 8800

C7_Witness == capacityRetryCount >= 5 /\ lastDelay < prevDelay

\* C8: the capacity-retry counter stays in 0..10, stays at 10 once reached on
\* an account, and no capacity backoff delay exceeds 8800 ms.
C8_BackoffBounds ==
    /\ [](/\ capacityRetryCount \in 0 .. 10
          /\ lastDelay <= 8800
          /\ (pc = "backoffSleep" => sleepMs <= 8800))
    /\ [][(capacityRetryCount = 10 /\ lastAccountIndex' = lastAccountIndex)
            => capacityRetryCount' = 10]_vars

C8_Witness ==
    /\ capacityRetryCount = 10
    /\ lastDelay = 8800
    /\ pc = "backoffSleep"
    /\ requestsSent > 10

\* C9: a just-in-time refresh that fails for a non-terminal reason cools the
\* account down for 60 s and goes back to selection without sending.
C9_TransientRefreshCoolsDown ==
    [][(/\ pc = "jitRefreshed"
        /\ refreshOutcome.kind \in {"error", "undefined"}
        /\ ~(refreshOutcome.code = "invalid_grant"
             \/ refreshOutcome.status \in {401, 403}))
        => /\ pc' = "select"
           /\ cooldownUntil'[account] = now + 60000
           /\ requestsSent' = requestsSent]_vars

\* C10: a refresh that fails with invalid_grant or 401/403 disables the
\* account, cools it down for 5 minutes with reason auth-failure, requests a
\* save and returns to selection; the call does not use the account again.
C10_TerminalRefreshDisables ==
    /\ [][(/\ pc \in {"jitRefreshed", "authRefreshed"}
           /\ refreshOutcome.kind = "error"
           /\ (refreshOutcome.code = "invalid_grant"
               \/ refreshOutcome.status \in {401, 403}))
            => /\ ~enabled'[account]
               /\ cooldownUntil'[account] = now + 300000
               /\ cooldownReason'[account] = "auth-failure"
               /\ saveRequests' = saveRequests + 1
               /\ pc' = "select"]_vars
    /\ [](\A a \in terminalFailed :
            /\ ~enabled[a]
            /\ account = a => pc \in {"select", "waitSleep", "done"})

C10_Witness ==
    /\ pc = "inflight"
    /\ terminalFailed # {}
    /\ account \notin terminalFailed

\* C11: for one account within one dispatch call an auth error (401/403)
\* triggers at most one token refresh.  The first auth error starts a
\* refresh and, when it succeeds, the dispatcher goes back to selection and
\* selection returns the same account again; a further auth error on an
\* account that already had its refresh, or a refresh that fails without a
\* terminal signal, cools the account down, leaves it enabled and returns to
\* SelectAccount.
C11_OneRefreshPerAccount ==
    [][/\ (/\ pc = "authRefreshed"
           /\ refreshOutcome.kind = "ok")
          => (pc' = "select" /\ selectForFamily' = account)
       /\ (/\ pc = "classify"
           /\ canRetry
           /\ IsAuthError(response)
           /\ ~IsAccessDenied(response)
           /\ account \in authRefreshed)
          => (/\ pc' = "select"
              /\ cooldownUntil'[account] > now
              /\ enabled'[account])
       /\ (/\ pc = "authRefreshed"
           /\ refreshOutcome.kind # "ok"
           /\ ~IsTerminalRefreshError(refreshOutcome))
          => (/\ pc' = "select"
              /\ cooldownUntil'[account] > now
              /\ enabled'[account])]_vars

\* C12: when selection returns an account other than the one of the previous
\* iteration, the capacity-retry count is 0 and the refresh-attempted flag
\* is false before the account is used; when it returns the same account
\* both keep their values.
C12_SwitchResetsCounters ==
    [][(pc = "select" /\ pc' \in {"inflight", "jitRefresh"})
       => IF account' # lastAccountIndex
          THEN /\ capacityRetryCount' = 0
               /\ attemptedRefreshForAccount' = FALSE
          ELSE /\ capacityRetryCount' = capacityRetryCount
               /\ attemptedRefreshForAccount' = attemptedRefreshForAccount]_vars

\* a request in flight on an account other than the one whose capacity
\* backoff preceded it, with the counter back at 0
C12_Witness ==
    /\ pc = "inflight"
    /\ prevOutcome = "capacity"
    /\ prevAccount # None
    /\ prevAccount # account
    /\ capacityRetryCount = 0
    /\ ~attemptedRefreshForAccount

StatedEligible(a) ==
    /\ enabled[a]
    /\ ~(cooldownUntil[a] > now)
    /\ ~(rateLimitReset[a] > now)

C15_OnlyEligibleIsSelected ==
    \A a \in Accounts :
        (StatedEligible(a) /\ \A b \in Accounts \ {a} : ~StatedEligible(b))
        => selectForFamily = a

\* the only eligible account was returned by the last two calls and is
\* returned again, below the index the search starts from
C15_Witness ==
    /\ \E a \in Accounts :
          /\ StatedEligible(a)
          /\ \A b \in Accounts \ {a} : ~StatedEligible(b)
          /\ account = a
          /\ prevAccount = a
          /\ selectForFamily = a
          /\ a < rrCursor
    /\ strategy = "round-robin"

\* no account was ever disabled, cooled down or rate limited
NoFailures ==
    \A a \in Accounts :
        enabled[a] /\ cooldownUntil[a] = 0 /\ rateLimitReset[a] = 0

StatedScore(a) ==
    LET health == Min(MaxScore * HourMs,
                      healthScore[a]
                      + RecoveryRatePerHour * (now - healthUpdated[a]))
        level == Min(MaxTokens * TokenScale,
                     tokens[a] + (now - tokensRefill[a]))
        idleMs == now - lastUsed[a]
    IN health
       + (IF level >= TokenScale THEN 5 * HourMs ELSE -5 * HourMs)
       + Min(idleMs * 60, 10 * HourMs)

\* C17: with hybrid, selection returns the eligible account with the
\* greatest score, and among equal scores the lowest index; an account with
\* health 80, a token and 10 s idle is chosen over one with health 40, no
\* token and 1000 s idle.
C17_HybridPicksBestScore ==
    strategy = "hybrid"
    => /\ \A b \in Accounts :
            (selectForFamily # None /\ StatedEligible(b))
            => \/ StatedScore(selectForFamily) > StatedScore(b)
               \/ /\ StatedScore(selectForFamily) = StatedScore(b)
                  /\ selectForFamily <= b
       /\ \A a, b \in Accounts :
            (/\ StatedEligible(a) /\ StatedEligible(b)
             /\ \A c \in Accounts \ {a, b} : ~StatedEligible(c)
             /\ StatedScore(a) = 80 * HourMs + 5 * HourMs + IdleShortMs * 60
             /\ StatedScore(b) = 40 * HourMs - 5 * HourMs + 10 * HourMs)
            => selectForFamily = a

\* the spec's example with the better account at the higher index, so that
\* the score and not the index decides
C17_Witness ==
    /\ strategy = "hybrid"
    /\ \E a, b \in Accounts :
          /\ b < a
          /\ StatedEligible(a) /\ StatedEligible(b)
          /\ \A c \in Accounts \ {a, b} : ~StatedEligible(c)
          /\ StatedScore(a) = 80 * HourMs + 5 * HourMs + IdleShortMs * 60
          /\ StatedScore(b) = 40 * HourMs - 5 * HourMs + 10 * HourMs
          /\ selectForFamily = a
          /\ account = a

\* C18: for every account, in every reachable state, including the state
\* right after the trackers are initialised from any configuration the
\* schema accepts: 0 <= healthScore <= maxScore and 0 <= tokens <= maxTokens.
C18_TrackersWithinBounds ==
    \A a \in Accounts :
        /\ 0 <= healthScore[a]
        /\ healthScore[a] <= healthConfig.maxScore * HourMs
        /\ 0 <= tokens[a]
        /\ tokens[a] <= tokenConfig.maxTokens * TokenScale

\* C19: a successful consume followed by a refund on the same account, with
\* no regeneration in between, leaves the token count at its value before
\* the consume; a consume that returns false changes nothing and is never
\* followed by a refund in the dispatcher.
C19_ConsumeRefundRoundTrip ==
    [][/\ refunds' # refunds
          => /\ tokenConsumed
             /\ ~tokenConsumed'
             /\ refunds' = refunds + 1
             /\ levelBefore # None
             /\ tokens'[account] = levelBefore
       /\ (pc # "inflight" /\ pc' = "inflight" /\ strategy = "hybrid"
           /\ ~tokenConsumed')
          => /\ \A a \in Accounts : TokensRefilled(a)' = TokensRefilled(a)
             /\ levelBefore' = None
       /\ (~tokenConsumed /\ pc # "select" /\ pc # "jitRefreshed")
          => (tokens' = tokens /\ refunds' = refunds)]_vars

\* a token consumed when the bucket had regenerated a part of a token was
\* given back after the attempt failed
C19_Witness ==
    /\ strategy = "hybrid"
    /\ refunds = 2
    /\ consumes = 2
    /\ ~tokenConsumed
    /\ now > 0
    /\ levelBefore # None
    /\ tokens[account] = levelBefore
    /\ levelBefore < MaxTokens * TokenScale

\* the accounts of a pool that carry the token
WithToken(accounts, token) ==
    {i \in DOMAIN accounts : accounts[i].refreshToken = token}

\* C20: mergeAccountStorage loses no account: every non-empty refresh token
\* of existing or incoming is carried by exactly one account of the result,
\* and for a token both pools hold, the result's rateLimitResetTimes has
\* every family key of the on-disk account's map and of the incoming one's.
C20_MergeLosesNoAccount ==
    merged # <<>> =>
        LET res == merged[1].accounts
        IN  /\ \A t \in TokensOf(existing) \cup TokensOf(incoming) :
                Cardinality(WithToken(res, t)) = 1
            /\ \A i \in DOMAIN existing.accounts, j \in DOMAIN incoming.accounts :
                LET e == existing.accounts[i]
                    a == incoming.accounts[j]
                IN  (e.refreshToken = a.refreshToken /\ e.refreshToken # "")
                    => \A r \in WithToken(res, e.refreshToken) :
                        DOMAIN ResetTimesOf(e) \cup DOMAIN ResetTimesOf(a)
                            \subseteq DOMAIN res[r].rateLimitResetTimes

\* a merge of two pools that share an account whose reset-time maps have
\* different family keys, next to an account only the disk holds and an
\* incoming account without refresh token
C20_Witness ==
    /\ merged # <<>>
    /\ Len(existing.accounts) = 2
    /\ Len(incoming.accounts) = 2
    /\ TokensOf(existing) = {"rt1", "rt2"}
    /\ TokensOf(incoming) = {"rt1"}
    /\ \E i \in DOMAIN existing.accounts, j \in DOMAIN incoming.accounts :
        /\ existing.accounts[i].refreshToken = "rt1"
        /\ incoming.accounts[j].refreshToken = "rt1"
        /\ DOMAIN ResetTimesOf(existing.accounts[i]) = {"other"}
        /\ DOMAIN ResetTimesOf(incoming.accounts[j]) = {"kimi"}
    /\ Len(merged[1].accounts) = 2

\* the on-disk account, the incoming account and the merged account of
\* every non-empty refresh token both pools hold
MergedBoth ==
    {<<existing.accounts[i], incoming.accounts[j], merged[1].accounts[r]>> :
        <<i, j, r>> \in
            {ijr \in (DOMAIN existing.accounts) \X (DOMAIN incoming.accounts)
                        \X (DOMAIN merged[1].accounts) :
                /\ existing.accounts[ijr[1]].refreshToken # ""
                /\ incoming.accounts[ijr[2]].refreshToken
                      = existing.accounts[ijr[1]].refreshToken
                /\ merged[1].accounts[ijr[3]].refreshToken
                      = existing.accounts[ijr[1]].refreshToken}}

\* C22 as stated: for an account on disk and in the incoming pool, the
\* merged account takes every field incoming defines from incoming, except
\* lastUsed, which is the maximum; fields only the on-disk entry defines
\* are kept.
C22_IncomingWinsExceptLastUsed ==
    merged # <<>> =>
        \A t \in MergedBoth :
            LET e == t[1]
                a == t[2]
                r == t[3]
            IN  /\ \A f \in DOMAIN a \ {"lastUsed"} :
                      f \in DOMAIN r /\ r[f] = a[f]
                /\ r.lastUsed = Max(e.lastUsed, a.lastUsed)
                /\ \A f \in DOMAIN e \ DOMAIN a :
                      f \in DOMAIN r /\ r[f] = e[f]

\* C22 (amended): the same, except that rateLimitResetTimes is neither
\* taken from incoming nor kept: the merged map has the family keys of
\* both maps, with incoming's reset time for a key both define and the
\* on-disk reset time for a key only the on-disk map has.
C22_IncomingWinsExceptLastUsedAndResetTimes ==
    merged # <<>> =>
        \A t \in MergedBoth :
            LET e == t[1]
                a == t[2]
                r == t[3]
                special == {"lastUsed", "rateLimitResetTimes"}
            IN  /\ \A f \in DOMAIN a \ special :
                      f \in DOMAIN r /\ r[f] = a[f]
                /\ r.lastUsed = Max(e.lastUsed, a.lastUsed)
                /\ \A f \in (DOMAIN e \ DOMAIN a) \ special :
                      f \in DOMAIN r /\ r[f] = e[f]
                /\ DOMAIN r.rateLimitResetTimes
                      = DOMAIN ResetTimesOf(e) \cup DOMAIN ResetTimesOf(a)
                /\ \A k \in DOMAIN ResetTimesOf(a) :
                      r.rateLimitResetTimes[k] = ResetTimesOf(a)[k]
                /\ \A k \in DOMAIN ResetTimesOf(e) \ DOMAIN ResetTimesOf(a) :
                      r.rateLimitResetTimes[k] = ResetTimesOf(e)[k]

\* a merge in which the on-disk account was used later than the incoming
\* one, only the on-disk account has a cooldown, the two disagree on
\* enabled, and both carry reset times, under different family keys
C22_Witness ==
    /\ merged # <<>>
    /\ \E t \in MergedBoth :
          /\ t[1].lastUsed > t[2].lastUsed
          /\ t[3].lastUsed = t[1].lastUsed
          /\ "coolingDownUntil" \in DOMAIN t[1] \ DOMAIN t[2]
          /\ t[3].coolingDownUntil = t[1].coolingDownUntil
          /\ t[1].enabled # t[2].enabled
          /\ t[3].enabled = t[2].enabled
          /\ DOMAIN t[1].rateLimitResetTimes = {"kimi"}
          /\ DOMAIN t[2].rateLimitResetTimes = {"other"}

\* the entries of a list that carry the user id
WithEmail(accounts, email) ==
    {i \in DOMAIN accounts : HasEmail(accounts[i]) /\ accounts[i].email = email}

\* the entry of the list the statement keeps for a user id: none has a
\* greater lastUsed, none of equal lastUsed a greater addedAt, and none
\* that ties on both comes earlier
StatedKept(accounts, email) ==
    CHOOSE i \in WithEmail(accounts, email) :
        \A j \in WithEmail(accounts, email) :
            \/ accounts[j].lastUsed < accounts[i].lastUsed
            \/ /\ accounts[j].lastUsed = accounts[i].lastUsed
               /\ accounts[j].addedAt < accounts[i].addedAt
            \/ /\ accounts[j].lastUsed = accounts[i].lastUsed
               /\ accounts[j].addedAt = accounts[i].addedAt
               /\ i <= j

\* the positions of the list the statement keeps
StatedKeptSet(accounts) ==
    {i \in DOMAIN accounts : ~HasEmail(accounts[i])}
    \cup {StatedKept(accounts, m) : m \in {accounts[i].email :
                i \in {k \in DOMAIN accounts : HasEmail(accounts[k])}}}

C21_ConcurrentSavesKeepBoth ==
    (\A p \in Procs : storePc[p] = "idle" /\ opsDone[p] >= 1)
        => /\ disk.kind = "json"
           /\ \A p \in Procs : TokensOf(memPool[p]) \subseteq TokensOf(disk.data)

\* no two accounts of the list share an identity: neither the refresh
\* token nor the user id
UniqueIdentities(accounts) ==
    \A i, j \in DOMAIN accounts :
        i < j =>
            /\ accounts[i].refreshToken # accounts[j].refreshToken
            /\ ~(/\ HasEmail(accounts[i])
                 /\ HasEmail(accounts[j])
                 /\ accounts[i].email = accounts[j].email)

\* C24: the pool a load returns and the pool a merge-save has written hold
\* no two accounts with the same refresh token or the same user id, also
\* when the saved copy of an account carries a rotated refresh token.
C24_IdentitiesUnique ==
    /\ loadAccounts(disk) # <<>>
          => UniqueIdentities(loadAccounts(disk)[1].accounts)
    /\ \A p \in Procs :
          (storePc[p] = "release" /\ storeOp[p] = "save" /\ disk.kind = "json")
              => UniqueIdentities(disk.data.accounts)

\* the identity of an account: its user id, or its refresh token when it
\* has none
IdentityOf(acc) == IF HasEmail(acc) THEN acc.email ELSE acc.refreshToken

\* the identities of the accounts a load of the file finds
IdentitiesIn(file) ==
    IF loadAccounts(file) = <<>> THEN {}
    ELSE {IdentityOf(loadAccounts(file)[1].accounts[i]) :
            i \in DOMAIN loadAccounts(file)[1].accounts}

\* C27: no step of a saveAccounts or of a persistAccountPool run removes
\* from the store an account that was on disk, whatever other processes
\* do in between (every step of this specification is one of the two).
C27_SavesRemoveNoAccount ==
    [][IdentitiesIn(disk) \subseteq IdentitiesIn(disk')]_vars

\* C28: a reader that takes no lock finds the store file missing or
\* complete, never truncated or partially written, whichever write of the
\* store is under way.
C28_ReaderSeesCompleteFile == observed.kind # "invalid"

\* C25: in every pool loadAccounts returns, activeIndex and
\* activeIndexByFamily.kimi designate an account of the pool, unless the
\* pool is empty
IndexInRange(i, storage) == i >= 0 /\ i < Len(storage.accounts)

C25_LoadedIndicesInRange ==
    (loaded.called /\ loaded.value # <<>>) =>
        LET storage == loaded.value[1]
        IN  \/ Len(storage.accounts) = 0
            \/ /\ IndexInRange(storage.activeIndex, storage)
               /\ "activeIndexByFamily" \in DOMAIN storage =>
                      IndexInRange(storage.activeIndexByFamily.kimi, storage)

\* C26: loadAccounts never throws; a file that is missing, unreadable, not
\* JSON, without an accounts array or of another version than 1 gives
\* null; otherwise a pool is returned, whose accounts are entries of the
\* file that have a refresh token
IsCorrupt(file) ==
    \/ file.kind # "json"
    \/ "accounts" \notin DOMAIN file.data
    \/ "version" \notin DOMAIN file.data
    \/ file.data.version # 1

C26_LoadNeverThrows ==
    loaded.called =>
        /\ ~loaded.threw
        /\ IsCorrupt(observed) <=> loaded.value = <<>>
        /\ ~IsCorrupt(observed) =>
              \A k \in DOMAIN loaded.value[1].accounts :
                 LET acc == loaded.value[1].accounts[k]
                 IN  /\ "refreshToken" \in DOMAIN acc
                     /\ \E j \in DOMAIN observed.data.accounts :
                           observed.data.accounts[j] = acc

\* a file with a null entry and an entry without refresh token was loaded
\* and both were dropped, and the accounts array is not empty
C26_Witness ==
    /\ loaded.called
    /\ observed.kind = "json"
    /\ ~IsCorrupt(observed)
    /\ observed.data.accounts = <<NullEntry, NoTokenEntry>>
    /\ loaded.value[1].accounts = <<>>

\* C29: the store never holds more than MAX_OAUTH_ACCOUNTS accounts,
\* whatever login sessions ran
C29_PoolAtMostTen ==
    disk.kind = "json" => Len(disk.data.accounts) <= MAX_OAUTH_ACCOUNTS

\* C30: a second run of updateOpencodeConfig leaves the config file as the
\* first run left it, and a successful run leaves as many plugin entries
\* containing the plugin's name as there were, or one if there was none
PluginCount(file) ==
    IF file.kind # "json" THEN 0
    ELSE Cardinality({k \in DOMAIN file.text.plugin :
                        IncludesPluginName(file.text.plugin[k])})

C30_UpdateIdempotent ==
    [][configRuns' > configRuns =>
          /\ configRuns >= 1 => configFile' = configFile
          /\ configOk' =>
                PluginCount(configFile') =
                    IF PluginCount(configFile) = 0 THEN 1
                    ELSE PluginCount(configFile)]_vars

\* C31: a successful run of updateOpencodeConfig on a config file sets
\* $schema only if it is missing, only appends to the plugin array, and
\* leaves every other top-level key, every other provider section, every
\* other moonshotai setting and every model that is neither a legacy
\* definition nor under a key of the plugin as it was, and every model
\* definition of the plugin is there afterwards
IsPrefix(a, b) == Len(a) <= Len(b) /\ SubSeq(b, 1, Len(a)) = a

PluginKeys ==
    {OPENCODE_MODEL_DEFINITIONS[k].key : k \in DOMAIN OPENCODE_MODEL_DEFINITIONS}

HasModel(models, m) == \E k \in DOMAIN models : models[k] = m

FrameKept(old, new) ==
    /\ new.schema = IF old.schema = <<>> THEN SCHEMA_URL ELSE old.schema
    /\ IsPrefix(IF old.pluginIsArray THEN old.plugin ELSE <<>>, new.plugin)
    /\ new.theme = old.theme
    /\ new.otherProvider = old.otherProvider
    /\ new.options = old.options
    /\ \A k \in DOMAIN old.models :
          (~IsLegacyModel(old.models[k]) /\ old.models[k].key \notin PluginKeys)
              => HasModel(new.models, old.models[k])
    /\ \A k \in DOMAIN OPENCODE_MODEL_DEFINITIONS :
          HasModel(new.models, OPENCODE_MODEL_DEFINITIONS[k])

C31_UpdateChangesOnlyItsKeys ==
    [][(configRuns' > configRuns /\ configOk' /\ configFile.kind = "json") =>
          FrameKept(configFile.text, configFile'.text)]_vars

\* C32: a run of the loader enables every account that is disabled with
\* cooldown reason auth-failure and clears its cooldown, leaves every
\* account disabled for another reason or none disabled, and so enables
\* every account that a terminal refresh failure disabled
C32_LoaderRepairsAuthFailures ==
    [][Loader =>
          \A a \in Accounts :
             /\ (~enabled[a] /\ cooldownReason[a] = "auth-failure") =>
                   (enabled'[a] /\ cooldownUntil'[a] <= now)
             /\ (~enabled[a] /\ cooldownReason[a] # "auth-failure") =>
                   ~enabled'[a]
             /\ (~enabled[a] /\ a \in terminalFailed) => enabled'[a]]_vars

\* the accounts loadAccounts finds in a store file
AccountsOf(file) ==
    IF loadAccounts(file) = <<>> THEN <<>> ELSE loadAccounts(file)[1].accounts

\* the pool after a credential was recorded, as stated
StatedPersist(old, new, token) ==
    LET userId == UserIdOf(token)
        byToken == {i \in DOMAIN old : old[i].refreshToken = token}
        byUser == {i \in DOMAIN old :
                      userId # "" /\ HasEmail(old[i]) /\ old[i].email = userId}
        matched == IF byToken # {} THEN byToken ELSE byUser
    IN  /\ matched # {} =>
              /\ Len(new) = Len(old)
              /\ \E i \in matched :
                    /\ new[i].refreshToken = token
                    /\ \A j \in DOMAIN old : j # i => new[j] = old[j]
        /\ matched = {} =>
              /\ Len(new) = Len(old) + 1
              /\ SubSeq(new, 1, Len(old)) = old
              /\ new[Len(new)].refreshToken = token
        /\ \A i, j \in DOMAIN new :
              i # j => new[i].refreshToken # new[j].refreshToken

\* C33: persistAccountPool updates in place the account that holds the new
\* refresh token, or else the account whose user id the token carries, so
\* that the size of the pool and the place of every account stay; a
\* credential that matches no account appends one account at the end; and
\* afterwards no two accounts share a refresh token
C33_PersistUpdatesInPlace ==
    [][opsDone'[1] > opsDone[1] =>
          StatedPersist(AccountsOf(disk), disk'.data.accounts, credential')]_vars

\* the rotated token of the first user was recorded in a pool that holds
\* two more accounts, and replaced the token of the user's account at its
\* place, the third
C33_Witness ==
    /\ credential = "rt1r"
    /\ disk.kind = "json"
    /\ Len(disk.data.accounts) = 3
    /\ disk.data.accounts[1] = AcctB
    /\ disk.data.accounts[2] = AcctN
    /\ disk.data.accounts[3].refreshToken = "rt1r"
    /\ disk.data.accounts[3].email = "u1"

\* the store after a removal and what the call returned, as stated
StatedRemoval(before, after, removeIndex, returned) ==
    LET old == AccountsOf(before)
        new == AccountsOf(after)
        oldActive == loadAccounts(before)[1].activeIndex
        newActive == after.data.activeIndex
    IN  IF old = <<>> \/ removeIndex < 0 \/ removeIndex >= Len(old)
        THEN ~returned /\ after = before
        ELSE /\ returned
             /\ Len(new) = Len(old) - 1
             /\ \A i \in DOMAIN new :
                   new[i] = old[IF i <= removeIndex THEN i ELSE i + 1]
             /\ new # <<>> =>
                   /\ newActive \in 0 .. Len(new) - 1
                   /\ after.data.activeIndexByFamily.kimi = newActive
                   /\ oldActive # removeIndex =>
                         new[newActive + 1] = old[oldActive + 1]

\* C34: removeAccountFromPool(i) returns false and leaves the store as it
\* was when i is out of range or the store is empty or missing; otherwise
\* it removes account i alone, keeps the order of the others, and the
\* active index designates afterwards the account it designated before,
\* or an index in range when that account is the one removed
C34_RemoveAccount ==
    (removal # <<>> /\ storePc[Remover] = "idle") =>
        StatedRemoval(removal.before, disk, removal.index, removal.returned)

\* the first of three accounts was removed while the third was the active
\* one, and the third is still the active one, now at the second place
C34_Witness ==
    /\ removal # <<>>
    /\ storePc[Remover] = "idle"
    /\ removal.index = 0
    /\ removal.before = FileOf(PoolAt(<<AcctA, AcctB, AcctN>>, 2))
    /\ disk = FileOf(PoolAt(<<AcctB, AcctN>>, 1))

\* C35: an account that removeAccountFromPool has removed is not in the
\* pool on disk afterwards, also when another process that holds the
\* account in memory performs a merge-save later
C35_RemovedStaysRemoved ==
    (removal # <<>> /\ removal.returned /\ storePc[Remover] = "idle") =>
        \A i \in DOMAIN AccountsOf(disk) :
            AccountsOf(disk)[i].refreshToken # removal.account[1].refreshToken

\* C38: for an account on disk and in the incoming pool, the merge never
\* replaces the reset time the disk holds for a family by an earlier one
C38_MergeKeepsLaterReset ==
    merged # <<>> =>
        \A t \in MergedBoth :
            \A family \in DOMAIN ResetTimesOf(t[1]) :
                /\ family \in DOMAIN ResetTimesOf(t[3])
                /\ ResetTimesOf(t[3])[family] >= ResetTimesOf(t[1])[family]

\* C39: the active index the merge writes, and the one of family kimi,
\* designate the account, by refresh token, that they designate in the
\* incoming pool
C39_MergeKeepsActiveAccount ==
    merged # <<>> =>
        LET active == incoming.accounts[incoming.activeIndex + 1].refreshToken
            written == merged[1].accounts
        IN  /\ merged[1].activeIndex + 1 \in DOMAIN written
            /\ written[merged[1].activeIndex + 1].refreshToken = active
            /\ written[merged[1].activeIndexByFamily.kimi + 1].refreshToken
                  = active

\* the save of process p is going to fail, or has failed
Failing(p) == fault[p] # "none" \/ storeOp[p] = "threw"

\* C40: a save that fails leaves the accounts of the on-disk pool as they
\* were at each of its steps, has no temp file once it has thrown, and does
\* not hold the lock once it has returned
C40_FailedSaveLeavesStore ==
    [][\A p \in Procs :
          /\ (Failing(p) /\ storePc'[p] # storePc[p]) =>
                AccountsOf(disk') = AccountsOf(disk)
          /\ storeOp'[p] = "threw" => tempFile'[p] = <<>>
          /\ (storeOp'[p] = "threw" /\ storePc'[p] = "idle") =>
                lockHolder' # p]_vars

\* the steps a failed save takes after the error
C40_FailurePath ==
    [][\A p \in Procs :
          /\ storeOp'[p] = "threw" => tempFile'[p] = <<>>
          /\ (storeOp'[p] = "threw" /\ storePc'[p] = "idle") =>
                lockHolder' # p
          /\ (Failing(p) /\ storePc[p] \notin {"access", "create", "createWrite"}
                /\ storePc'[p] # storePc[p]) =>
                disk' = disk]_vars

\* C37: no two dispatch calls have a refresh in flight for the same
\* account, so that no refresh token is sent twice and no account is
\* disabled because another refresh used its token up (the endpoint of
\* this specification revokes nothing on its own)
C37_OneRefreshInFlight ==
    /\ \A c1, c2 \in Calls :
          (c1 # c2 /\ inFlight[c1].pc = "refreshing"
                   /\ inFlight[c2].pc = "refreshing")
          => inFlight[c1].account # inFlight[c2].account
    /\ \A a \in Accounts : enabled[a]

\* the part of C37 about the account alone
C37_NoAccountDisabled == \A a \in Accounts : enabled[a]

\* C36: every dispatch call returns a response or throws in the end, when
\* every request is answered and every sleep ends
C36_DispatchReturns == <>(pc = "done")

\* C36 for a pool with an enabled account, where the upstream may answer
\* with a capacity error for ever
C36_ReturnsUnderCapacity ==
    (\E a \in Accounts : enabled[a]) => <>(pc = "done")

\* C36 for a pool whose accounts are all disabled
C36_ReturnsWhenAllDisabled ==
    (\A a \in Accounts : ~enabled[a]) => <>(pc = "done")
====
